---- MODULE Spec2Model ----
(***************************************************************************)
(* A model of the peephole optimizer of opt/peephole/PeepholeV2.cpp: the   *)
(* pattern data model (DexPattern, Pattern), the streaming Matcher with    *)
(* its retry heuristic, the replacement synthesizer and the per-method     *)
(* driver PeepholeOptimizerV2::peephole.                                   *)
(*                                                                         *)
(* An interned DexString / DexType / DexMethod handle is modelled by the   *)
(* string it interns: interning makes handle identity and value equality   *)
(* coincide.  An IRInstruction* is modelled by the identity (a positive    *)
(* number) of the entry that holds the instruction.                        *)
(***************************************************************************)
EXTENDS Integers, Sequences, FiniteSets, TLC

(***************************************************************************)
(* Bounds of the model.                                                    *)
(***************************************************************************)
\* the longest method (number of entries over all its blocks) that is explored
MaxInsns == 4

(***************************************************************************)
(* enum class Register: the odd numbers are the bindable registers, the    *)
(* even number after each is its wide pair.                                *)
(***************************************************************************)
Register_A == 1
Register_B == 3
Register_C == 5
Register_D == 7
Register_pair_A == 2
Register_pair_B == 4
Register_pair_C == 6
Register_pair_D == 8
kRegisterArraySize == 9

get_pair_register(reg) == reg + 1

\* handles that an instruction of another kind does not carry
NoString == "<no string>"
NoType == "<no type>"
NoMethod == "<no method>"

LjavaString == "Ljava/lang/String;"
LjavaStringBuilder == "Ljava/lang/StringBuilder;"
LjavaObject == "Ljava/lang/Object;"

(***************************************************************************)
(* DexMethod::make_method(type, name, return type, argument types): the    *)
(* interned method handle, modelled by its descriptor.                     *)
(***************************************************************************)
RECURSIVE JoinStrings(_)
JoinStrings(ss) ==
    IF ss = << >> THEN "" ELSE Head(ss) \o JoinStrings(Tail(ss))

make_method(type, name, rtype, args) ==
    type \o "." \o name \o ":(" \o JoinStrings(args) \o ")" \o rtype

(***************************************************************************)
(* The instruction adapter: what the matcher reads of an IRInstruction.    *)
(***************************************************************************)
Insn(op, dests, srcs, lit, str, typ, mth) ==
    [opcode |-> op, dests |-> dests, srcs |-> srcs, literal |-> lit,
     string |-> str, type |-> typ, method |-> mth]

\* an entry of a block: an opcode entry holds an instruction
OpcodeEntry(insn) == [type |-> "MFLOW_OPCODE", insn |-> insn]
\* any other entry (a branch target, a try marker, a debug entry, ...)
OtherEntry == [type |-> "MFLOW_TARGET",
               insn |-> Insn("none", << >>, << >>, 0, NoString, NoType, NoMethod)]

(***************************************************************************)
(* struct DexPattern and its five constructors plus the copy factory.      *)
(* The members of the union that a kind does not use hold a default that   *)
(* the code never reads.                                                   *)
(***************************************************************************)
DexPattern(opcodes, srcs, dests, kind, method, string, literal, type, copy_index) ==
    [opcodes |-> opcodes, srcs |-> srcs, dests |-> dests, kind |-> kind,
     method |-> method, string |-> string, literal |-> literal, type |-> type,
     copy_index |-> copy_index]

DexPattern_none(opcodes, srcs, dests) ==
    DexPattern(opcodes, srcs, dests, "none", NoMethod, "", "", "", 0)

DexPattern_method(opcodes, srcs, dests, method) ==
    DexPattern(opcodes, srcs, dests, "method", method, "", "", "", 0)

DexPattern_string(opcodes, srcs, dests, string) ==
    DexPattern(opcodes, srcs, dests, "string", NoMethod, string, "", "", 0)

DexPattern_literal(opcodes, srcs, dests, literal) ==
    DexPattern(opcodes, srcs, dests, "literal", NoMethod, "", literal, "", 0)

DexPattern_type(opcodes, srcs, dests, type) ==
    DexPattern(opcodes, srcs, dests, "type", NoMethod, "", "", type, 0)

copy_matched_instruction(index) ==
    DexPattern({}, << >>, << >>, "copy", NoMethod, "", "", "", index)

(***************************************************************************)
(* The operand layout of the opcodes, from the bytecode format: the number *)
(* of destinations, the number of sources of a freshly constructed         *)
(* instruction (an invoke starts with no argument words) and the bit width *)
(* of the destination and source register fields.                          *)
(***************************************************************************)
InvokeOpcodes ==
    {"OPCODE_INVOKE_VIRTUAL", "OPCODE_INVOKE_SUPER", "OPCODE_INVOKE_DIRECT",
     "OPCODE_INVOKE_STATIC", "OPCODE_INVOKE_INTERFACE"}

InvokeRangeOpcodes ==
    {"OPCODE_INVOKE_VIRTUAL_RANGE", "OPCODE_INVOKE_SUPER_RANGE",
     "OPCODE_INVOKE_DIRECT_RANGE", "OPCODE_INVOKE_STATIC_RANGE",
     "OPCODE_INVOKE_INTERFACE_RANGE"}

dests_size(opcode) ==
    IF opcode \in InvokeOpcodes \cup InvokeRangeOpcodes THEN 0 ELSE 1

fresh_srcs_size(opcode) ==
    IF opcode \in {"OPCODE_MOVE", "OPCODE_MOVE_OBJECT", "OPCODE_MOVE_16",
                   "OPCODE_NEG_INT", "OPCODE_ADD_INT_LIT8", "OPCODE_ADD_INT_LIT16",
                   "OPCODE_MUL_INT_LIT8", "OPCODE_MUL_INT_LIT16",
                   "OPCODE_DIV_INT_LIT8", "OPCODE_DIV_INT_LIT16"}
    THEN 1 ELSE 0

dest_bit_width(opcode) ==
    CASE opcode \in {"OPCODE_CONST_4", "OPCODE_MOVE", "OPCODE_MOVE_OBJECT",
                     "OPCODE_NEG_INT", "OPCODE_ADD_INT_LIT16",
                     "OPCODE_MUL_INT_LIT16", "OPCODE_DIV_INT_LIT16"} -> 4
      [] opcode = "OPCODE_MOVE_16" -> 16
      [] OTHER -> 8

src_bit_width(opcode, i) ==
    CASE opcode \in {"OPCODE_MOVE", "OPCODE_MOVE_OBJECT", "OPCODE_NEG_INT",
                     "OPCODE_ADD_INT_LIT16", "OPCODE_MUL_INT_LIT16",
                     "OPCODE_DIV_INT_LIT16"} \cup InvokeOpcodes -> 4
      [] opcode \in {"OPCODE_MOVE_16"} \cup InvokeRangeOpcodes -> 16
      [] OTHER -> 8

Min(a, b) == IF a < b THEN a ELSE b

(***************************************************************************)
(* min_vreg_bit_width_for_opcode: the smallest width of any destination or *)
(* source of a fresh instruction of the opcode, 16 when it has none.       *)
(***************************************************************************)
min_vreg_bit_width_for_opcode(opcode) ==
    LET afterDest == IF dests_size(opcode) > 0
                     THEN Min(16, dest_bit_width(opcode)) ELSE 16
        RECURSIVE overSrcs(_, _)
        overSrcs(i, result) ==
            IF i >= fresh_srcs_size(opcode) THEN result
            ELSE overSrcs(i + 1, Min(result, src_bit_width(opcode, i)))
    IN overSrcs(0, afterDest)

SeqToSet(s) == {s[i] : i \in DOMAIN s}

(***************************************************************************)
(* Pattern::determine_register_width_limits: every register that a replace *)
(* element mentions takes the minimum of its limit and the element's       *)
(* opcode width; the limits start at 16.                                   *)
(***************************************************************************)
RECURSIVE LimitsOverOpcodes(_, _, _)
LimitsOverOpcodes(limits, pat, opcodes) ==
    IF opcodes = {} THEN limits
    ELSE LET opcode == CHOOSE o \in opcodes : TRUE
             width == min_vreg_bit_width_for_opcode(opcode)
             regs == SeqToSet(pat.srcs) \cup SeqToSet(pat.dests)
             next == [idx \in DOMAIN limits |->
                        IF idx \in regs THEN Min(limits[idx], width)
                        ELSE limits[idx]]
         IN LimitsOverOpcodes(next, pat, opcodes \ {opcode})

RECURSIVE LimitsOverReplace(_, _)
LimitsOverReplace(limits, replace) ==
    IF replace = << >> THEN limits
    ELSE LimitsOverReplace(
             LimitsOverOpcodes(limits, Head(replace), Head(replace).opcodes),
             Tail(replace))

\* a variant whose limits start at 8 bits
determine_register_width_limits_from_8(replace) ==
    LimitsOverReplace([idx \in 0..(kRegisterArraySize - 1) |-> 8], replace)

determine_register_width_limits(replace) ==
    LimitsOverReplace([idx \in 0..(kRegisterArraySize - 1) |-> 16], replace)

(***************************************************************************)
(* struct Pattern.  The predicate is << >> when the rule has none and      *)
(* <<VALUE>> for first_instruction_literal_is<VALUE>.                      *)
(***************************************************************************)
Pattern(name, match, replace, predicate) ==
    [name |-> name, match |-> match, replace |-> replace,
     predicate |-> predicate,
     register_width_limits |-> determine_register_width_limits(replace)]

\* a variant that also lets through the first value beyond the limit
register_can_match_vreg_value_inclusive(pattern, reg, value) ==
    value <= 2 ^ pattern.register_width_limits[reg]

\* Pattern::register_can_match_vreg_value: value < (1U << limit)
register_can_match_vreg_value(pattern, reg, value) ==
    value < 2 ^ pattern.register_width_limits[reg]

(***************************************************************************)
(* namespace patterns: the helper factories.                               *)
(***************************************************************************)
invoke_StringBuilder_init(instance) ==
    DexPattern_method({"OPCODE_INVOKE_DIRECT"}, <<instance>>, << >>,
                      make_method(LjavaStringBuilder, "<init>", "V", << >>))

\* a variant that passes the receiver and the argument in the other order
invoke_StringBuilder_init_String_swapped(instance, argument) ==
    DexPattern_method({"OPCODE_INVOKE_DIRECT"}, <<argument, instance>>, << >>,
                      make_method(LjavaStringBuilder, "<init>", "V", <<LjavaString>>))

invoke_StringBuilder_init_String(instance, argument) ==
    DexPattern_method({"OPCODE_INVOKE_DIRECT"}, <<instance, argument>>, << >>,
                      make_method(LjavaStringBuilder, "<init>", "V", <<LjavaString>>))

invoke_StringBuilder_append(instance, argument, param_type) ==
    DexPattern_method(
        {"OPCODE_INVOKE_VIRTUAL"},
        IF param_type = "J" \/ param_type = "D"
        THEN <<instance, argument, get_pair_register(argument)>>
        ELSE <<instance, argument>>,
        << >>,
        make_method(LjavaStringBuilder, "append", LjavaStringBuilder, <<param_type>>))

invoke_String_valueOf(argument, param_type) ==
    DexPattern_method(
        {"OPCODE_INVOKE_STATIC"},
        IF param_type = "J" \/ param_type = "D"
        THEN <<argument, get_pair_register(argument)>>
        ELSE <<argument>>,
        << >>,
        make_method(LjavaString, "valueOf", LjavaString, <<param_type>>))

invoke_String_equals(instance, argument) ==
    DexPattern_method({"OPCODE_INVOKE_VIRTUAL"}, <<instance, argument>>, << >>,
                      make_method(LjavaString, "equals", "Z", <<LjavaObject>>))

invoke_String_length(instance) ==
    DexPattern_method({"OPCODE_INVOKE_VIRTUAL"}, <<instance>>, << >>,
                      make_method(LjavaString, "length", "I", << >>))

const_string(dest, string) ==
    DexPattern_string({"OPCODE_CONST_STRING"}, << >>, <<dest>>, string)

move_result_object(dest) ==
    DexPattern_none({"OPCODE_MOVE_RESULT_OBJECT"}, << >>, <<dest>>)

move_result(dest) == DexPattern_none({"OPCODE_MOVE_RESULT"}, << >>, <<dest>>)

const_literal(opcode, dest, literal) ==
    DexPattern_literal({opcode}, << >>, <<dest>>, literal)

const_wide(dest, literal) ==
    DexPattern_literal(
        {"OPCODE_CONST_WIDE_16", "OPCODE_CONST_WIDE_32", "OPCODE_CONST_WIDE"},
        << >>, <<dest>>, literal)

const_integer(dest, literal) ==
    DexPattern_literal({"OPCODE_CONST_4", "OPCODE_CONST_16", "OPCODE_CONST"},
                       << >>, <<dest>>, literal)

const_float(dest, literal) ==
    DexPattern_literal({"OPCODE_CONST_4", "OPCODE_CONST"}, << >>, <<dest>>, literal)

const_char(dest, literal) == const_integer(dest, literal)

\* a variant whose source is another placeholder than the one given
move_ops_unrelated(dest, src) ==
    DexPattern_none({"OPCODE_MOVE", "OPCODE_MOVE_OBJECT"},
                    <<get_pair_register(src)>>, <<dest>>)

move_ops(dest, src) ==
    DexPattern_none({"OPCODE_MOVE", "OPCODE_MOVE_OBJECT"}, <<src>>, <<dest>>)

mul_or_div_lit(src, dst) ==
    DexPattern_none({"OPCODE_MUL_INT_LIT8", "OPCODE_MUL_INT_LIT16",
                     "OPCODE_DIV_INT_LIT8", "OPCODE_DIV_INT_LIT16"},
                    <<src>>, <<dst>>)

add_lit(src, dst) ==
    DexPattern_none({"OPCODE_ADD_INT_LIT8", "OPCODE_ADD_INT_LIT16"}, <<src>>, <<dst>>)

kAnyInvoke == InvokeOpcodes \cup InvokeRangeOpcodes

invoke_class_get_simple_name ==
    DexPattern_method(kAnyInvoke, <<Register_A>>, << >>,
                      make_method("Ljava/lang/Class;", "getSimpleName",
                                  "Ljava/lang/String;", << >>))

const_class(dest_reg, type) ==
    DexPattern_type({"OPCODE_CONST_CLASS"}, << >>, <<dest_reg>>, type)

\* Coalesce_AppendString_Append{Int,Char,Boolean,LongInt} share their shape
AppendString_Append(name, constant, param_type, directive) ==
    Pattern(name,
            <<const_string(Register_B, "A"),
              invoke_StringBuilder_append(Register_A, Register_B, LjavaString),
              move_result_object(Register_C),
              constant,
              invoke_StringBuilder_append(Register_C, Register_D, param_type)>>,
            <<const_string(Register_B, directive),
              invoke_StringBuilder_append(Register_A, Register_B, LjavaString)>>,
            << >>)

\* Replace_ValueOf{Boolean,Char,Int,LongInt,Float,Double} share their shape
Replace_ValueOf(name, constant, param_type, directive) ==
    Pattern(name,
            <<constant,
              invoke_String_valueOf(Register_A, param_type),
              move_result_object(Register_B)>>,
            <<const_string(Register_B, directive)>>,
            << >>)

get_string_patterns ==
    << Pattern("Coalesce_InitVoid_AppendString",
               <<invoke_StringBuilder_init(Register_A),
                 const_string(Register_B, "A"),
                 invoke_StringBuilder_append(Register_A, Register_B, LjavaString),
                 move_result_object(Register_A)>>,
               <<const_string(Register_B, "A"),
                 invoke_StringBuilder_init_String(Register_A, Register_B)>>,
               << >>),
       AppendString_Append("Coalesce_AppendString_AppendString",
                           const_string(Register_D, "B"), LjavaString,
                           "concat_A_B_strings"),
       Pattern("CompileTime_StringLength",
               <<const_string(Register_A, "A"),
                 invoke_String_length(Register_A),
                 move_result(Register_B)>>,
               <<const_string(Register_A, "A"),
                 const_literal("OPCODE_CONST_16", Register_B, "Length_String_A")>>,
               << >>),
       Pattern("Coalesce_Init_AppendChar",
               <<invoke_StringBuilder_init(Register_A),
                 const_char(Register_B, "A"),
                 invoke_StringBuilder_append(Register_A, Register_B, "C"),
                 move_result_object(Register_A)>>,
               <<const_string(Register_B, "char_A_to_string"),
                 invoke_StringBuilder_init_String(Register_A, Register_B)>>,
               << >>),
       AppendString_Append("Coalesce_AppendString_AppendInt",
                           const_integer(Register_D, "A"), "I",
                           "concat_string_A_int_A"),
       AppendString_Append("Coalesce_AppendString_AppendChar",
                           const_char(Register_D, "A"), "C",
                           "concat_string_A_char_A"),
       AppendString_Append("Coalesce_AppendString_AppendBoolean",
                           const_literal("OPCODE_CONST_4", Register_D, "A"), "Z",
                           "concat_string_A_boolean_A"),
       AppendString_Append("Coalesce_AppendString_AppendLongInt",
                           const_wide(Register_D, "A"), "J",
                           "concat_string_A_long_int_A"),
       Pattern("CompileTime_StringCompare",
               <<const_string(Register_A, "A"),
                 const_string(Register_B, "B"),
                 invoke_String_equals(Register_A, Register_B),
                 move_result(Register_C)>>,
               <<const_literal("OPCODE_CONST_4", Register_C, "Compare_Strings_A_B")>>,
               << >>),
       Replace_ValueOf("Replace_ValueOfBoolean",
                       const_literal("OPCODE_CONST_4", Register_A, "A"), "Z",
                       "boolean_A_to_string"),
       Replace_ValueOf("Replace_ValueOfChar", const_char(Register_A, "A"), "C",
                       "char_A_to_string"),
       Replace_ValueOf("Replace_ValueOfInt", const_integer(Register_A, "A"), "I",
                       "int_A_to_string"),
       Replace_ValueOf("Replace_ValueOfLongInt", const_wide(Register_A, "A"), "J",
                       "long_int_A_to_string"),
       Replace_ValueOf("Replace_ValueOfFloat", const_float(Register_A, "A"), "F",
                       "float_A_to_string"),
       Replace_ValueOf("Replace_ValueOfDouble", const_wide(Register_A, "A"), "D",
                       "double_A_to_string") >>

\* a variant whose rule puts two moves in the place of one
get_nop_patterns_growing ==
    << Pattern("Remove_Redundant_Move", <<move_ops(Register_A, Register_A)>>,
               <<DexPattern_none({"OPCODE_MOVE_16"}, <<Register_A>>, <<Register_A>>),
                 DexPattern_none({"OPCODE_MOVE_16"}, <<Register_A>>, <<Register_A>>)>>,
               << >>) >>

get_nop_patterns ==
    << Pattern("Remove_Redundant_Move", <<move_ops(Register_A, Register_A)>>,
               << >>, << >>) >>

get_arith_patterns ==
    << Pattern("Arith_MulDivLit_Pos1",
               <<mul_or_div_lit(Register_A, Register_B)>>,
               <<DexPattern_none({"OPCODE_MOVE_16"}, <<Register_A>>, <<Register_B>>)>>,
               <<1>>),
       Pattern("Arith_MulDivLit_Neg1",
               <<mul_or_div_lit(Register_A, Register_B)>>,
               <<DexPattern_none({"OPCODE_NEG_INT"}, <<Register_A>>, <<Register_B>>)>>,
               <<-1>>),
       Pattern("Arith_AddLit_0",
               <<add_lit(Register_A, Register_B)>>,
               <<DexPattern_none({"OPCODE_MOVE_16"}, <<Register_A>>, <<Register_B>>)>>,
               <<0>>) >>

get_func_patterns ==
    << Pattern("Remove_LangClass_GetSimpleName",
               <<const_class(Register_A, "A"),
                 invoke_class_get_simple_name,
                 move_result_object(Register_B)>>,
               <<copy_matched_instruction(0),
                 const_string(Register_B, "Type_A_get_simple_name")>>,
               << >>) >>

get_all_patterns ==
    get_nop_patterns \o get_string_patterns \o get_arith_patterns \o get_func_patterns

(***************************************************************************)
(* The two rules of the overview comment, Pattern 1 = a b c -> x and       *)
(* Pattern 2 = a b d -> y z.  A letter is realised as a call without       *)
(* arguments of a static method named by the letter, so that the letters   *)
(* are instructions the matcher tells apart and the synthesizer can emit.  *)
(***************************************************************************)
LetterMethod(l) == make_method("Lletter;", l, "V", << >>)

Letter(l) == DexPattern_method({"OPCODE_INVOKE_STATIC"}, << >>, << >>, LetterMethod(l))

LetterInsn(l) ==
    Insn("OPCODE_INVOKE_STATIC", << >>, << >>, 0, NoString, NoType, LetterMethod(l))

overview_patterns ==
    << Pattern("Pattern_1", <<Letter("a"), Letter("b"), Letter("c")>>,
               <<Letter("x")>>, << >>),
       Pattern("Pattern_2", <<Letter("a"), Letter("b"), Letter("d")>>,
               <<Letter("y"), Letter("z")>>, << >>) >>

(***************************************************************************)
(* struct Matcher: the matching state of one pattern.  The maps are        *)
(* functions whose domain is the set of bound placeholders.                *)
(***************************************************************************)
NoBinding == << >>

Matcher(match_index, insns, regs, strings, literals, types) ==
    [match_index |-> match_index, matched_instructions |-> insns,
     matched_regs |-> regs, matched_strings |-> strings,
     matched_literals |-> literals, matched_types |-> types]

\* Matcher::Matcher(pattern) and Matcher::reset()
reset == Matcher(0, << >>, NoBinding, NoBinding, NoBinding, NoBinding)

(***************************************************************************)
(* The lambdas of try_match.  Each returns whether the operand matches and *)
(* the matcher with the binding it may have added.                         *)
(***************************************************************************)
\* a variant of match_reg that binds again instead of comparing
match_reg_rebinding(pattern, m, pattern_reg, insn_reg) ==
    IF ~register_can_match_vreg_value(pattern, pattern_reg, insn_reg)
    THEN [ok |-> FALSE, m |-> m]
    ELSE [ok |-> TRUE,
          m |-> [m EXCEPT !.matched_regs =
                    (pattern_reg :> insn_reg) @@
                    [r \in DOMAIN @ \ {pattern_reg} |-> @[r]]]]

\* a variant of match_reg that refuses a register another placeholder holds
match_reg_distinct(pattern, m, pattern_reg, insn_reg) ==
    IF pattern_reg \in DOMAIN m.matched_regs
    THEN [ok |-> m.matched_regs[pattern_reg] = insn_reg, m |-> m]
    ELSE IF ~register_can_match_vreg_value(pattern, pattern_reg, insn_reg)
    THEN [ok |-> FALSE, m |-> m]
    ELSE IF \E r \in DOMAIN m.matched_regs : m.matched_regs[r] = insn_reg
    THEN [ok |-> FALSE, m |-> m]
    ELSE [ok |-> TRUE,
          m |-> [m EXCEPT !.matched_regs = (pattern_reg :> insn_reg) @@ @]]

match_reg(pattern, m, pattern_reg, insn_reg) ==
    IF pattern_reg \in DOMAIN m.matched_regs
    THEN [ok |-> m.matched_regs[pattern_reg] = insn_reg, m |-> m]
    ELSE IF ~register_can_match_vreg_value(pattern, pattern_reg, insn_reg)
    THEN [ok |-> FALSE, m |-> m]
    ELSE [ok |-> TRUE,
          m |-> [m EXCEPT !.matched_regs = (pattern_reg :> insn_reg) @@ @]]

match_literal(m, pattern, insn_literal_val) ==
    IF pattern \in DOMAIN m.matched_literals
    THEN [ok |-> m.matched_literals[pattern] = insn_literal_val, m |-> m]
    ELSE [ok |-> TRUE,
          m |-> [m EXCEPT !.matched_literals = (pattern :> insn_literal_val) @@ @]]

match_string(m, pattern, insn_str) ==
    IF pattern = "empty"
    THEN [ok |-> Len(insn_str) = 0, m |-> m]
    ELSE IF pattern \in DOMAIN m.matched_strings
    THEN [ok |-> m.matched_strings[pattern] = insn_str, m |-> m]
    ELSE [ok |-> TRUE,
          m |-> [m EXCEPT !.matched_strings = (pattern :> insn_str) @@ @]]

match_type(m, pattern, insn_type) ==
    IF pattern \in DOMAIN m.matched_types
    THEN [ok |-> m.matched_types[pattern] = insn_type, m |-> m]
    ELSE [ok |-> TRUE,
          m |-> [m EXCEPT !.matched_types = (pattern :> insn_type) @@ @]]

\* the loop of match_instruction over the sources, from source i on
RECURSIVE match_srcs(_, _, _, _, _)
match_srcs(pattern, m, dexpat, insn, i) ==
    IF i > Len(dexpat.srcs) THEN [ok |-> TRUE, m |-> m]
    ELSE LET r == match_reg(pattern, m, dexpat.srcs[i], insn.srcs[i])
         IN IF ~r.ok THEN r
            ELSE match_srcs(pattern, r.m, dexpat, insn, i + 1)

(***************************************************************************)
(* match_instruction: does insn match the element dexpat?  The bindings    *)
(* made before an operand fails stay in the returned matcher: only reset   *)
(* removes them.  abort is the fatal assertion on a copy element.          *)
(***************************************************************************)
match_instruction(pattern, m, dexpat, insn) ==
    IF \/ insn.opcode \notin dexpat.opcodes
       \/ Len(dexpat.srcs) # Len(insn.srcs)
       \/ Len(dexpat.dests) # Len(insn.dests)
    THEN [ok |-> FALSE, m |-> m, abort |-> FALSE]
    ELSE LET d == IF Len(dexpat.dests) # 0
                  THEN match_reg(pattern, m, dexpat.dests[1], insn.dests[1])
                  ELSE [ok |-> TRUE, m |-> m]
             s == match_srcs(pattern, d.m, dexpat, insn, 1)
             k == CASE dexpat.kind = "none" -> [ok |-> TRUE, m |-> s.m]
                    [] dexpat.kind = "string" ->
                           match_string(s.m, dexpat.string, insn.string)
                    [] dexpat.kind = "literal" ->
                           match_literal(s.m, dexpat.literal, insn.literal)
                    [] dexpat.kind = "method" ->
                           [ok |-> dexpat.method = insn.method, m |-> s.m]
                    [] dexpat.kind = "type" ->
                           match_type(s.m, dexpat.type, insn.type)
                    [] OTHER -> [ok |-> FALSE, m |-> s.m]
         IN IF ~d.ok THEN [ok |-> FALSE, m |-> d.m, abort |-> FALSE]
            ELSE IF ~s.ok THEN [ok |-> FALSE, m |-> s.m, abort |-> FALSE]
            ELSE [ok |-> k.ok, m |-> k.m, abort |-> dexpat.kind = "copy"]

(***************************************************************************)
(* first_instruction_literal_is<VALUE>, the only predicate of the catalog; *)
(* insns gives the instruction behind each instruction identity.           *)
(***************************************************************************)
\* a variant that compares the low bytes only, so that 255 reads as -1
first_instruction_literal_is_low_byte(value, m, insns) ==
    IF m.matched_instructions = << >> THEN FALSE
    ELSE insns[Head(m.matched_instructions)].literal % 256 = value % 256

first_instruction_literal_is(value, m, insns) ==
    IF m.matched_instructions = << >> THEN FALSE
    ELSE insns[Head(m.matched_instructions)].literal = value

\* pattern.predicate && !pattern.predicate(*this)
predicate_vetoes(pattern, m, insns) ==
    /\ pattern.predicate # << >>
    /\ ~first_instruction_literal_is(pattern.predicate[1], m, insns)

(***************************************************************************)
(* Matcher::try_match(insn): the new matcher state, the returned value,    *)
(* and which way the call went:                                            *)
(*   path = "matched"        the element at the cursor matched             *)
(*          "retry_matched"  it failed at cursor 1, element 0 matched      *)
(*          "retry_failed"   it failed at cursor 1, element 0 failed too   *)
(*          "failed"         it failed at another cursor                   *)
(*   veto   the predicate rejected the completed match                     *)
(*   abort  an assertion failed                                            *)
(***************************************************************************)
\* a variant of the advance that never asks the predicate
try_match_advance_unvetoed(pattern, m, id, insns, path) ==
    LET pushed == [m EXCEPT !.matched_instructions = Append(@, id),
                            !.match_index = @ + 1]
    IN [m |-> pushed, ret |-> pushed.match_index = Len(pattern.match),
        path |-> path, veto |-> FALSE, abort |-> FALSE]

\* a variant that returns false on a veto without the reset
try_match_advance_veto_unreset(pattern, m, id, insns, path) ==
    LET pushed == [m EXCEPT !.matched_instructions = Append(@, id),
                            !.match_index = @ + 1]
        done == pushed.match_index = Len(pattern.match)
    IN IF done /\ predicate_vetoes(pattern, pushed, insns)
       THEN [m |-> pushed, ret |-> FALSE, path |-> path, veto |-> TRUE,
             abort |-> FALSE]
       ELSE [m |-> pushed, ret |-> done, path |-> path, veto |-> FALSE,
             abort |-> FALSE]

try_match_advance(pattern, m, id, insns, path) ==
    LET pushed == [m EXCEPT !.matched_instructions = Append(@, id),
                            !.match_index = @ + 1]
        done == pushed.match_index = Len(pattern.match)
    IN IF done /\ predicate_vetoes(pattern, pushed, insns)
       THEN [m |-> reset, ret |-> FALSE, path |-> path, veto |-> TRUE,
             abort |-> FALSE]
       ELSE [m |-> pushed, ret |-> done, path |-> path, veto |-> FALSE,
             abort |-> FALSE]

\* variants of the retry decision: at every cursor past 0, and at cursor 2 too
should_retry_past_zero(m) == m.match_index >= 1

should_retry_at_two(m) == m.match_index \in {1, 2}

\* bool retry = (match_index == 1)
should_retry(m) == m.match_index = 1

try_match(pattern, m, id, insns) ==
    IF ~(m.match_index < Len(pattern.match))
    THEN [m |-> m, ret |-> FALSE, path |-> "assert", veto |-> FALSE, abort |-> TRUE]
    ELSE
    LET insn == insns[id]
        first == match_instruction(pattern, m, pattern.match[m.match_index + 1], insn)
        retry == should_retry(m)
        second == match_instruction(pattern, reset, pattern.match[1], insn)
    IN IF first.abort
       THEN [m |-> first.m, ret |-> FALSE, path |-> "assert", veto |-> FALSE,
             abort |-> TRUE]
       ELSE IF first.ok
       THEN try_match_advance(pattern, first.m, id, insns, "matched")
       ELSE IF ~retry
       THEN [m |-> reset, ret |-> FALSE, path |-> "failed", veto |-> FALSE,
             abort |-> FALSE]
       ELSE IF second.abort
       THEN [m |-> second.m, ret |-> FALSE, path |-> "assert", veto |-> FALSE,
             abort |-> TRUE]
       ELSE IF ~second.ok
       THEN [m |-> second.m, ret |-> FALSE, path |-> "retry_failed",
             veto |-> FALSE, abort |-> FALSE]
       ELSE try_match_advance(pattern, second.m, id, insns, "retry_matched")

(***************************************************************************)
(* The decimal rendering of std::to_string on an integer.                  *)
(***************************************************************************)
Digit(d) == <<"0", "1", "2", "3", "4", "5", "6", "7", "8", "9">>[d + 1]

RECURSIVE DecNat(_)
DecNat(n) == IF n < 10 THEN Digit(n) ELSE DecNat(n \div 10) \o Digit(n % 10)

to_string(n) == IF n < 0 THEN "-" \o DecNat(0 - n) ELSE DecNat(n)

(***************************************************************************)
(* An int64_t, the type of a bound literal, as its four 16-bit limbs in    *)
(* two's complement, the most significant first.                           *)
(***************************************************************************)
\* the int64_t with the value v
Int64(v) ==
    <<IF v < 0 THEN 65535 ELSE 0, IF v < 0 THEN 65535 ELSE 0,
      (v \div 65536) % 65536, v % 65536>>

\* a variant that keeps the low 16 bits only
narrow_to_int_low_half(a) == IF a[4] >= 32768 THEN a[4] - 65536 ELSE a[4]

\* int a = <int64_t>: the low 32 bits, read as a signed number
narrow_to_int(a) == (IF a[3] >= 32768 THEN a[3] - 65536 ELSE a[3]) * 65536 + a[4]

\* the absolute value of a negative int64_t, as an unsigned number
Magnitude(a) ==
    LET s4 == (65535 - a[4]) + 1
        s3 == (65535 - a[3]) + s4 \div 65536
        s2 == (65535 - a[2]) + s3 \div 65536
        s1 == (65535 - a[1]) + s2 \div 65536
    IN <<s1 % 65536, s2 % 65536, s3 % 65536, s4 % 65536>>

\* an unsigned number divided by ten: the quotient and the remainder
DivTen(a) ==
    LET c1 == a[1]
        c2 == (c1 % 10) * 65536 + a[2]
        c3 == (c2 % 10) * 65536 + a[3]
        c4 == (c3 % 10) * 65536 + a[4]
    IN [q |-> <<c1 \div 10, c2 \div 10, c3 \div 10, c4 \div 10>>, r |-> c4 % 10]

RECURSIVE DecLimbs(_)
DecLimbs(a) ==
    IF DivTen(a).q = <<0, 0, 0, 0>> THEN Digit(DivTen(a).r)
    ELSE DecLimbs(DivTen(a).q) \o Digit(DivTen(a).r)

\* std::to_string(int64_t)
long_to_string(a) ==
    IF a[1] >= 32768 THEN "-" \o DecLimbs(Magnitude(a)) ELSE DecLimbs(a)

\* bool a = <int64_t>; a == true ? "true" : "false"
bool_to_string(literal) == IF literal # <<0, 0, 0, 0>> THEN "true" ELSE "false"

(***************************************************************************)
(* Matcher::generate_dex_instruction: the skeleton of a replacement.       *)
(***************************************************************************)
\* a variant without the case of neg-int
ReplacementOpcodes_without_neg_int ==
    {"OPCODE_INVOKE_DIRECT", "OPCODE_INVOKE_STATIC", "OPCODE_INVOKE_VIRTUAL",
     "OPCODE_MOVE_16", "OPCODE_MOVE_RESULT", "OPCODE_MOVE_RESULT_OBJECT",
     "OPCODE_CONST_STRING", "OPCODE_CONST_4", "OPCODE_CONST_16", "OPCODE_CONST"}

ReplacementOpcodes ==
    {"OPCODE_INVOKE_DIRECT", "OPCODE_INVOKE_STATIC", "OPCODE_INVOKE_VIRTUAL",
     "OPCODE_MOVE_16", "OPCODE_MOVE_RESULT", "OPCODE_MOVE_RESULT_OBJECT",
     "OPCODE_NEG_INT", "OPCODE_CONST_STRING", "OPCODE_CONST_4",
     "OPCODE_CONST_16", "OPCODE_CONST"}

generate_dex_instruction(replace) ==
    IF Cardinality(replace.opcodes) # 1
    THEN [abort |-> TRUE, insn |-> Insn("none", << >>, << >>, 0, NoString, NoType, NoMethod)]
    ELSE LET opcode == CHOOSE o \in replace.opcodes : TRUE
         IN [abort |-> opcode \notin ReplacementOpcodes,
             insn |-> Insn(opcode, << >>, << >>, 0, NoString, NoType,
                           IF opcode \in {"OPCODE_INVOKE_DIRECT", "OPCODE_INVOKE_STATIC",
                                          "OPCODE_INVOKE_VIRTUAL"}
                           THEN replace.method ELSE NoMethod)]

(***************************************************************************)
(* The renderings that the string directives use.  A character and a type  *)
(* name are looked up by their characters; the float and double renderings *)
(* are those of std::to_string ("%f") on the values listed.                *)
(***************************************************************************)
\* encode_utf8_char_to_mutf8_string on an ASCII code: the one-byte string
encode_utf8_char_to_mutf8_string(c) ==
    CASE c = 48 -> "0"
      [] c = 65 -> "A"
      [] c = 97 -> "a"
      [] c = 98 -> "b"

\* std::to_string(float) of the float with the bits i
float_to_string(i) ==
    CASE i = 0 -> "0.000000"
      [] i = 1065353216 -> "1.000000"
      [] i = 1073741824 -> "2.000000"
      [] i = 1056964608 -> "0.500000"

\* std::to_string(double) of the double with the bits i: the bits of a small
\* non-negative integer are those of zero or of a subnormal number
double_to_string(i) ==
    CASE i[1] = 0 /\ i[2] = 0 /\ i[3] < 32768 -> "0.000000"

\* the characters of a type name
TypeChars(type) ==
    CASE type = "Ljava/lang/String;" ->
             <<"L", "j", "a", "v", "a", "/", "l", "a", "n", "g", "/",
               "S", "t", "r", "i", "n", "g", ";">>
      [] type = "Lcom/foo/Bar;" ->
             <<"L", "c", "o", "m", "/", "f", "o", "o", "/", "B", "a", "r", ";">>
      [] type = "LFoo;" -> <<"L", "F", "o", "o", ";">>

(***************************************************************************)
(* Matcher::get_simple_name: full.substr(lpos + 1, full.size() - lpos - 2) *)
(* with lpos = full.rfind('/').  Positions count from 0; npos + 1 wraps to *)
(* 0, and a count that wraps below 0 reaches to the end of the string.     *)
(***************************************************************************)
get_simple_name(type) ==
    LET full == TypeChars(type)
        slashes == {k \in DOMAIN full : full[k] = "/"}
        lpos == IF slashes = {} THEN -1
                ELSE (CHOOSE k \in slashes : \A o \in slashes : o <= k) - 1
        first == lpos + 1
        count == Len(full) - lpos - 2
        end == IF count < 0 \/ first + count > Len(full)
               THEN Len(full) ELSE first + count
    IN JoinStrings(SubSeq(full, first + 1, end))

\* a variant that joins the strings in the other order
concat_strings_swapped(a, b) == b \o a

\* std::string(a) + std::string(b)
concat_strings(a, b) == a \o b

(***************************************************************************)
(* The string and literal directives of get_replacements.  Each yields the *)
(* value and whether the synthesis aborts: a placeholder that is not bound *)
(* (std::map::at throws), a directive the switch has no case for.          *)
(***************************************************************************)
StringDirectiveCases ==
    {"A", "boolean_A_to_string", "char_A_to_string", "int_A_to_string",
     "long_int_A_to_string", "float_A_to_string", "double_A_to_string",
     "concat_A_B_strings", "concat_string_A_int_A", "concat_string_A_boolean_A",
     "concat_string_A_long_int_A", "concat_string_A_char_A",
     "Type_A_get_simple_name"}

\* the switch on replace_info.string, on a matcher whose bound literals are
\* held as int64_t
string_switch(m, directive) ==
    LET needsStringA == directive \in {"A", "concat_A_B_strings",
                                       "concat_string_A_int_A",
                                       "concat_string_A_boolean_A",
                                       "concat_string_A_long_int_A",
                                       "concat_string_A_char_A"}
        needsStringB == directive = "concat_A_B_strings"
        needsLiteralA == directive \in {"boolean_A_to_string", "char_A_to_string",
                                        "int_A_to_string", "long_int_A_to_string",
                                        "float_A_to_string", "double_A_to_string",
                                        "concat_string_A_int_A",
                                        "concat_string_A_boolean_A",
                                        "concat_string_A_long_int_A",
                                        "concat_string_A_char_A"}
        needsTypeA == directive = "Type_A_get_simple_name"
        missing == \/ directive \notin StringDirectiveCases
                   \/ needsStringA /\ "A" \notin DOMAIN m.matched_strings
                   \/ needsStringB /\ "B" \notin DOMAIN m.matched_strings
                   \/ needsLiteralA /\ "A" \notin DOMAIN m.matched_literals
                   \/ needsTypeA /\ "A" \notin DOMAIN m.matched_types
    IN IF missing THEN [abort |-> TRUE, value |-> NoString]
       ELSE [abort |-> FALSE,
             value |->
               CASE directive = "A" -> m.matched_strings["A"]
                 [] directive = "boolean_A_to_string" ->
                        bool_to_string(m.matched_literals["A"])
                 [] directive = "char_A_to_string" ->
                        encode_utf8_char_to_mutf8_string(
                            narrow_to_int(m.matched_literals["A"]))
                 [] directive = "int_A_to_string" ->
                        to_string(narrow_to_int(m.matched_literals["A"]))
                 [] directive = "long_int_A_to_string" ->
                        long_to_string(m.matched_literals["A"])
                 [] directive = "float_A_to_string" ->
                        float_to_string(narrow_to_int(m.matched_literals["A"]))
                 [] directive = "double_A_to_string" ->
                        double_to_string(m.matched_literals["A"])
                 [] directive = "concat_A_B_strings" ->
                        concat_strings(m.matched_strings["A"], m.matched_strings["B"])
                 [] directive = "concat_string_A_int_A" ->
                        concat_strings(m.matched_strings["A"],
                                       to_string(narrow_to_int(
                                           m.matched_literals["A"])))
                 [] directive = "concat_string_A_boolean_A" ->
                        concat_strings(m.matched_strings["A"],
                                       bool_to_string(m.matched_literals["A"]))
                 [] directive = "concat_string_A_long_int_A" ->
                        concat_strings(m.matched_strings["A"],
                                       long_to_string(m.matched_literals["A"]))
                 [] directive = "concat_string_A_char_A" ->
                        concat_strings(m.matched_strings["A"],
                                       encode_utf8_char_to_mutf8_string(
                                           narrow_to_int(m.matched_literals["A"])))
                 [] directive = "Type_A_get_simple_name" ->
                        get_simple_name(m.matched_types["A"])]

\* the switch for the matcher of a traversal, whose bound literals are the
\* literals of instructions
string_directive(m, directive) ==
    string_switch([m EXCEPT !.matched_literals = [p \in DOMAIN @ |-> Int64(@[p])]],
                  directive)

literal_directive(m, directive) ==
    CASE directive = "Compare_Strings_A_B" ->
             IF {"A", "B"} \subseteq DOMAIN m.matched_strings
             THEN [abort |-> FALSE,
                   value |-> IF m.matched_strings["A"] = m.matched_strings["B"]
                             THEN 1 ELSE 0]
             ELSE [abort |-> TRUE, value |-> 0]
      [] directive = "Length_String_A" ->
             IF "A" \in DOMAIN m.matched_strings
             THEN [abort |-> FALSE, value |-> Len(m.matched_strings["A"])]
             ELSE [abort |-> TRUE, value |-> 0]
      [] directive = "A" ->
             IF "A" \in DOMAIN m.matched_literals
             THEN [abort |-> FALSE, value |-> m.matched_literals["A"]]
             ELSE [abort |-> TRUE, value |-> 0]
      [] OTHER -> [abort |-> TRUE, value |-> 0]

type_directive(m, directive) ==
    IF directive \in {"A", "B"} /\ directive \in DOMAIN m.matched_types
    THEN [abort |-> FALSE, value |-> m.matched_types[directive]]
    ELSE [abort |-> TRUE, value |-> NoType]

\* a variant whose copy carries the identity of the copied instruction along
replacement_with_identity(m, replace_info, insns) ==
    IF replace_info.kind = "copy"
    THEN [abort |-> FALSE,
          insn |-> [insns[m.matched_instructions[replace_info.copy_index + 1]]
                       EXCEPT !.literal = m.matched_instructions[1]]]
    ELSE [abort |-> FALSE,
          insn |-> Insn(CHOOSE o \in replace_info.opcodes : TRUE, << >>, << >>,
                        m.matched_instructions[1], NoString, NoType, NoMethod)]

(***************************************************************************)
(* One round of the loop of get_replacements: the instruction of one       *)
(* replace element.                                                        *)
(***************************************************************************)
replacement(m, replace_info, insns) ==
    IF replace_info.kind = "copy"
    THEN IF Len(m.matched_instructions) > replace_info.copy_index
         THEN [abort |-> FALSE,
               insn |-> insns[m.matched_instructions[replace_info.copy_index + 1]]]
         ELSE [abort |-> TRUE,
               insn |-> Insn("none", << >>, << >>, 0, NoString, NoType, NoMethod)]
    ELSE
    LET g == generate_dex_instruction(replace_info)
        regs == SeqToSet(replace_info.dests) \cup SeqToSet(replace_info.srcs)
        bound == regs \subseteq DOMAIN m.matched_regs
        str == IF replace_info.kind = "string"
               THEN string_directive(m, replace_info.string)
               ELSE [abort |-> FALSE, value |-> g.insn.string]
        lit == IF replace_info.kind = "literal"
               THEN literal_directive(m, replace_info.literal)
               ELSE [abort |-> FALSE, value |-> g.insn.literal]
        typ == IF replace_info.kind = "type"
               THEN type_directive(m, replace_info.type)
               ELSE [abort |-> FALSE, value |-> g.insn.type]
    IN IF g.abort \/ ~bound \/ str.abort \/ lit.abort \/ typ.abort
       THEN [abort |-> TRUE, insn |-> g.insn]
       ELSE [abort |-> FALSE,
             insn |-> [g.insn EXCEPT
                 !.dests = [k \in DOMAIN replace_info.dests |->
                               m.matched_regs[replace_info.dests[k]]],
                 !.srcs = [k \in DOMAIN replace_info.srcs |->
                              m.matched_regs[replace_info.srcs[k]]],
                 !.string = str.value,
                 !.literal = lit.value,
                 !.type = typ.value]]

RECURSIVE replacements_from(_, _, _)
replacements_from(m, replace, insns) ==
    IF replace = << >> THEN [abort |-> FALSE, insns |-> << >>]
    ELSE LET r == replacement(m, Head(replace), insns)
             rest == replacements_from(m, Tail(replace), insns)
         IN IF r.abort \/ rest.abort THEN [abort |-> TRUE, insns |-> << >>]
            ELSE [abort |-> FALSE, insns |-> <<r.insn>> \o rest.insns]

\* Matcher::get_replacements
get_replacements(pattern, m, insns) ==
    IF Len(pattern.match) # m.match_index
    THEN [abort |-> TRUE, insns |-> << >>]
    ELSE replacements_from(m, pattern.replace, insns)

(***************************************************************************)
(* The optimizer and the method it runs over.                              *)
(***************************************************************************)
VARIABLES
    disabled_peepholes, \* the constructor's list of disabled rule names
    m_patterns,         \* the pattern each matcher refers to, in order
    method,             \* the blocks of the method before the pass
    code,               \* the blocks of the method, edited when the pass ends
    m_matchers,         \* the state of each matcher
    m_matchers_stat,    \* the number of firings of each matcher
    m_stats_removed,
    m_stats_inserted,
    deletes,            \* the instructions queued for deletion
    inserts,            \* the queued insertions: anchor and new instructions
    pc,                 \* where the driver is
    block,              \* the index of the block being traversed
    entry,              \* the index of the entry of the block being processed
    cur,                \* the index of the matcher that is fed next
    last,               \* the latest try_match call: the matcher fed, the
                        \* instruction, the matcher's state before and
                        \* after the call and what the call returned
    fed,                \* every try_match call of the run, in order: the
                        \* matcher fed, the instruction, the returned value
                        \* and the instructions the matcher held at the return
                        \* (restarted with every method),
    scope,              \* the methods of m_scope that run() has yet to walk
    rewritten           \* the latest rewrite_string by a literal directive: the
                        \* bound literal and string, the directive, the result

vars == <<disabled_peepholes, m_patterns, method, code, m_matchers,
          m_matchers_stat, m_stats_removed, m_stats_inserted, deletes, inserts,
          pc, block, entry, cur, last, fed, scope,
                   rewritten>>

PatternNames(patterns) == [k \in DOMAIN patterns |-> patterns[k].name]

\* matcher.pattern of matcher i
PatternOf(i) == m_patterns[i]

(***************************************************************************)
(* PeepholeOptimizerV2::PeepholeOptimizerV2: a matcher for every pattern   *)
(* of the catalog whose name is not disabled, in catalog order.            *)
(***************************************************************************)
\* a variant that takes every rule of the catalog
EnabledPatterns_unfiltered(patterns, disabled) == patterns

RECURSIVE EnabledPatterns(_, _)
EnabledPatterns(patterns, disabled) ==
    IF patterns = << >> THEN << >>
    ELSE (IF Head(patterns).name \in disabled THEN << >> ELSE <<Head(patterns)>>)
         \o EnabledPatterns(Tail(patterns), disabled)

(***************************************************************************)
(* A method is a sequence of blocks; a block is a sequence of entries,     *)
(* each with the identity of its instruction object.  The explored methods *)
(* are cut out of a flat sequence of entries and block boundaries.         *)
(***************************************************************************)
Boundary == [type |-> "boundary",
             insn |-> Insn("none", << >>, << >>, 0, NoString, NoType, NoMethod)]

RECURSIVE BlocksFrom(_, _, _, _)
BlocksFrom(flat, k, id, acc) ==
    IF k > Len(flat) THEN acc
    ELSE IF flat[k] = Boundary
    THEN BlocksFrom(flat, k + 1, id, Append(acc, << >>))
    ELSE BlocksFrom(flat, k + 1, id + 1,
                    [acc EXCEPT ![Len(acc)] =
                        Append(@, [id |-> id, type |-> flat[k].type,
                                   insn |-> flat[k].insn])])

MethodOf(flat) == BlocksFrom(flat, 1, 1, << << >> >>)

RECURSIVE Flatten(_)
Flatten(blocks) ==
    IF blocks = << >> THEN << >> ELSE Head(blocks) \o Flatten(Tail(blocks))

\* the instruction behind each instruction identity of the method
InsnsOf(blocks) == [id \in DOMAIN Flatten(blocks) |-> Flatten(blocks)[id].insn]

SeqsUpTo(S, n) == UNION {[1..k -> S] : k \in 0..n}

(***************************************************************************)
(* The instructions of the explored methods.                               *)
(***************************************************************************)
const_string_insn(d, str) ==
    Insn("OPCODE_CONST_STRING", <<d>>, << >>, 0, str, NoType, NoMethod)

const_insn(opcode, d, lit) == Insn(opcode, <<d>>, << >>, lit, NoString, NoType, NoMethod)

invoke_insn(opcode, srcs, mth) == Insn(opcode, << >>, srcs, 0, NoString, NoType, mth)

move_insn(opcode, d, src) == Insn(opcode, <<d>>, <<src>>, 0, NoString, NoType, NoMethod)

lit_insn(opcode, d, src, lit) ==
    Insn(opcode, <<d>>, <<src>>, lit, NoString, NoType, NoMethod)

StringBuilder_init == make_method(LjavaStringBuilder, "<init>", "V", << >>)
StringBuilder_append_String ==
    make_method(LjavaStringBuilder, "append", LjavaStringBuilder, <<LjavaString>>)
String_valueOf(param_type) ==
    make_method(LjavaString, "valueOf", LjavaString, <<param_type>>)
Object_init == make_method(LjavaObject, "<init>", "V", << >>)

AllNames == SeqToSet(PatternNames(get_all_patterns))

\* the configuration that enables the rules `enabled` of the catalog
Only(enabled, alphabet) ==
    [catalog |-> get_all_patterns,
     disabled |-> AllNames \ enabled,
     alphabet |-> alphabet]

OverviewLetters == {OpcodeEntry(LetterInsn(l)) : l \in {"a", "b", "c", "d"}}

(***************************************************************************)
(* The explored configurations: the rules of the overview comment over its *)
(* letters, and groups of catalog rules over instructions that their       *)
(* elements accept or narrowly reject.                                     *)
(***************************************************************************)
Configurations ==
    { [catalog |-> overview_patterns, disabled |-> {},
       alphabet |-> OverviewLetters],
      Only({"Remove_Redundant_Move", "Replace_ValueOfBoolean"},
           { OpcodeEntry(const_insn("OPCODE_CONST_4", 0, 1)),
             OpcodeEntry(move_insn("OPCODE_MOVE", 3, 3)),
             OpcodeEntry(move_insn("OPCODE_MOVE", 3, 4)),
             OpcodeEntry(invoke_insn("OPCODE_INVOKE_STATIC", <<0>>, String_valueOf("Z"))),
             OpcodeEntry(Insn("OPCODE_MOVE_RESULT_OBJECT", <<1>>, << >>, 0,
                              NoString, NoType, NoMethod)) }),
      Only({"Replace_ValueOfLongInt"},
           { OpcodeEntry(const_insn("OPCODE_CONST_WIDE_16", 0, -7)),
             OpcodeEntry(invoke_insn("OPCODE_INVOKE_STATIC", <<0, 1>>, String_valueOf("J"))),
             OpcodeEntry(invoke_insn("OPCODE_INVOKE_STATIC", <<0, 5>>, String_valueOf("J"))),
             OpcodeEntry(Insn("OPCODE_MOVE_RESULT_OBJECT", <<2>>, << >>, 0,
                              NoString, NoType, NoMethod)),
             OpcodeEntry(Insn("OPCODE_MOVE_RESULT_OBJECT", <<256>>, << >>, 0,
                              NoString, NoType, NoMethod)) }),
      Only({"Arith_MulDivLit_Pos1", "Arith_MulDivLit_Neg1"},
           { OpcodeEntry(lit_insn("OPCODE_MUL_INT_LIT8", 3, 7, -1)),
             OpcodeEntry(lit_insn("OPCODE_MUL_INT_LIT8", 3, 17, -1)),
             OpcodeEntry(lit_insn("OPCODE_MUL_INT_LIT8", 300, 300, 1)),
             OpcodeEntry(lit_insn("OPCODE_DIV_INT_LIT16", 3, 7, 2)),
             OtherEntry }),
      Only({"Coalesce_InitVoid_AppendString"},
           { OpcodeEntry(invoke_insn("OPCODE_INVOKE_DIRECT", <<1>>, StringBuilder_init)),
             OpcodeEntry(invoke_insn("OPCODE_INVOKE_DIRECT", <<5>>, Object_init)),
             OpcodeEntry(const_string_insn(2, "hi")),
             OpcodeEntry(invoke_insn("OPCODE_INVOKE_VIRTUAL", <<1, 2>>,
                                     StringBuilder_append_String)),
             OpcodeEntry(Insn("OPCODE_MOVE_RESULT_OBJECT", <<1>>, << >>, 0,
                              NoString, NoType, NoMethod)) }) }

(***************************************************************************)
(* The state after construction, before peephole(method) runs.             *)
(***************************************************************************)
\* no literal directive has run
NoRewrite == [literal_A |-> Int64(0), string_A |-> "", directive |-> "", string |-> ""]

InitWith(cfg, blocks) ==
    /\ disabled_peepholes = cfg.disabled
    /\ m_patterns = EnabledPatterns(cfg.catalog, cfg.disabled)
    /\ method = blocks
    /\ code = blocks
    /\ m_matchers = [i \in DOMAIN EnabledPatterns(cfg.catalog, cfg.disabled) |-> reset]
    /\ m_matchers_stat = [i \in DOMAIN EnabledPatterns(cfg.catalog, cfg.disabled) |-> 0]
    /\ m_stats_removed = 0
    /\ m_stats_inserted = 0
    /\ deletes = << >>
    /\ inserts = << >>
    /\ pc = "block"
    /\ block = 1
    /\ entry = 1
    /\ cur = 1
    /\ last = [called |-> FALSE, matcher |-> 0, id |-> 0, index_before |-> 0,
               ret |-> FALSE, path |-> "", veto |-> FALSE, before |-> reset,
               after |-> reset]
    /\ fed = << >>
    /\ scope = IF "scope" \in DOMAIN cfg THEN cfg.scope ELSE << >>
    /\ rewritten = IF "rewritten" \in DOMAIN cfg THEN cfg.rewritten ELSE NoRewrite

Init ==
    \E cfg \in Configurations :
        \E flat \in SeqsUpTo(cfg.alphabet \cup {Boundary}, MaxInsns) :
            InitWith(cfg, MethodOf(flat))

(***************************************************************************)
(* PeepholeOptimizerV2::peephole, one step of its loops at a time.         *)
(***************************************************************************)
CurrentEntry == method[block][entry]

\* a variant that leaves the matchers as the previous block left them
StartBlock_without_reset ==
    /\ pc = "block"
    /\ block <= Len(method)
    /\ pc' = "entry"
    /\ entry' = 1
    /\ cur' = 1
    /\ UNCHANGED <<disabled_peepholes, m_patterns, method, code, m_matchers,
                   m_matchers_stat, m_stats_removed, m_stats_inserted, deletes,
                   inserts, block, last, fed, scope,
                   rewritten>>

\* for (const auto& block : blocks): reset all matching states
StartBlock ==
    /\ pc = "block"
    /\ block <= Len(method)
    /\ m_matchers' = [i \in DOMAIN m_matchers |-> reset]
    /\ pc' = "entry"
    /\ entry' = 1
    /\ cur' = 1
    /\ UNCHANGED <<disabled_peepholes, m_patterns, method, code, m_matchers_stat,
                   m_stats_removed, m_stats_inserted, deletes, inserts, block, last,
                   fed, scope,
                   rewritten>>

\* the entries of the block are exhausted: on to the next block
EndBlock ==
    /\ pc = "entry"
    /\ entry > Len(method[block])
    /\ pc' = "block"
    /\ block' = block + 1
    /\ UNCHANGED <<disabled_peepholes, m_patterns, method, code, m_matchers,
                   m_matchers_stat, m_stats_removed, m_stats_inserted, deletes,
                   inserts, entry, cur, last, fed,
                   scope,
                   rewritten>>

\* a variant that resets the matchers on an entry that is skipped
SkipEntry_with_reset ==
    /\ pc = "entry"
    /\ entry <= Len(method[block])
    /\ CurrentEntry.type # "MFLOW_OPCODE" \/ Len(m_matchers) = 0
    /\ entry' = entry + 1
    /\ m_matchers' = [i \in DOMAIN m_matchers |-> reset]
    /\ UNCHANGED <<disabled_peepholes, m_patterns, method, code,
                   m_matchers_stat, m_stats_removed, m_stats_inserted, deletes,
                   inserts, pc, block, cur, last, fed,
                   scope,
                   rewritten>>

\* if (mei.type != MFLOW_OPCODE) continue; also an entry that no matcher is left for
SkipEntry ==
    /\ pc = "entry"
    /\ entry <= Len(method[block])
    /\ CurrentEntry.type # "MFLOW_OPCODE" \/ Len(m_matchers) = 0
    /\ entry' = entry + 1
    /\ UNCHANGED <<disabled_peepholes, m_patterns, method, code, m_matchers,
                   m_matchers_stat, m_stats_removed, m_stats_inserted, deletes,
                   inserts, pc, block, cur, last, fed,
                   scope,
                   rewritten>>

\* matcher.try_match(mei.insn) for the matcher cur
TryMatch ==
    /\ pc = "entry"
    /\ entry <= Len(method[block])
    /\ CurrentEntry.type = "MFLOW_OPCODE"
    /\ cur <= Len(m_matchers)
    /\ LET r == try_match(PatternOf(cur), m_matchers[cur], CurrentEntry.id,
                          InsnsOf(method))
       IN /\ m_matchers' = [m_matchers EXCEPT ![cur] = r.m]
          /\ last' = [called |-> TRUE, matcher |-> cur, id |-> CurrentEntry.id,
                      index_before |-> m_matchers[cur].match_index,
                      ret |-> r.ret, path |-> r.path, veto |-> r.veto,
                      before |-> m_matchers[cur], after |-> r.m]
          /\ fed' = Append(fed, [matcher |-> cur, id |-> CurrentEntry.id,
                                 ret |-> r.ret,
                                 matched |-> r.m.matched_instructions])
          /\ IF r.abort THEN pc' = "aborted" /\ UNCHANGED <<entry, cur>>
             ELSE IF r.ret THEN pc' = "matched" /\ UNCHANGED <<entry, cur>>
             ELSE IF cur < Len(m_matchers)
             THEN cur' = cur + 1 /\ UNCHANGED <<pc, entry>>
             ELSE cur' = 1 /\ entry' = entry + 1 /\ UNCHANGED pc
    /\ UNCHANGED <<disabled_peepholes, m_patterns, method, code, m_matchers_stat,
                   m_stats_removed, m_stats_inserted, deletes, inserts, block,
                   scope,
                   rewritten>>

\* a variant without the break: the matchers behind the winner are fed the
\* same instruction
resume_after_match_unbroken(e, i, n) ==
    IF i < n THEN [entry |-> e, cur |-> i + 1] ELSE [entry |-> e + 1, cur |-> 1]

\* break: the entry e is done for all n matchers once matcher i has matched
resume_after_match(e, i, n) == [entry |-> e + 1, cur |-> 1]

\* a variant that counts the cursor as inserted and the replacement as removed
stats_after_match_swapped(removed, inserted, matcher, replace) ==
    [removed |-> removed + Len(replace), inserted |-> inserted + matcher.match_index]

\* m_stats_inserted += replace.size(); m_stats_removed += matcher.match_index
stats_after_match(removed, inserted, matcher, replace) ==
    [removed |-> removed + matcher.match_index, inserted |-> inserted + Len(replace)]

\* the body of the loop after a try_match that returned true
Fire ==
    /\ pc = "matched"
    /\ LET matcher == m_matchers[cur]
           replace == get_replacements(PatternOf(cur), matcher, InsnsOf(method))
       IN /\ m_matchers_stat' = [m_matchers_stat EXCEPT ![cur] = @ + 1]
          /\ deletes' = deletes \o matcher.matched_instructions
          /\ IF replace.abort
             THEN /\ pc' = "aborted"
                  /\ UNCHANGED <<m_stats_inserted, m_stats_removed, inserts,
                                 m_matchers, entry, cur>>
             ELSE /\ m_stats_inserted' =
                         stats_after_match(m_stats_removed, m_stats_inserted,
                                           matcher, replace.insns).inserted
                  /\ m_stats_removed' =
                         stats_after_match(m_stats_removed, m_stats_inserted,
                                           matcher, replace.insns).removed
                  /\ inserts' = Append(inserts, [anchor |-> CurrentEntry.id,
                                                 insns |-> replace.insns])
                  /\ m_matchers' = [m_matchers EXCEPT ![cur] = reset]
                  /\ pc' = "entry"
                  /\ entry' = resume_after_match(entry, cur, Len(m_matchers)).entry
                  /\ cur' = resume_after_match(entry, cur, Len(m_matchers)).cur
    /\ UNCHANGED <<disabled_peepholes, m_patterns, method, code, block, last, fed,
                   scope,
                   rewritten>>

(***************************************************************************)
(* The edits on the instruction list: insert_after puts the new            *)
(* instructions behind the anchor, remove_opcode takes the entry of an     *)
(* instruction out; either fails when the instruction is not in the list.  *)
(***************************************************************************)
Position(blk, id) ==
    IF \E k \in DOMAIN blk : blk[k].id = id
    THEN CHOOSE k \in DOMAIN blk : blk[k].id = id ELSE 0

Holds(blocks, id) == \E b \in DOMAIN blocks : Position(blocks[b], id) # 0

NewEntries(insns) ==
    [k \in DOMAIN insns |-> [id |-> 0, type |-> "MFLOW_OPCODE", insn |-> insns[k]]]

insert_after(blocks, id, insns) ==
    [b \in DOMAIN blocks |->
        LET p == Position(blocks[b], id)
        IN IF p = 0 THEN blocks[b]
           ELSE SubSeq(blocks[b], 1, p) \o NewEntries(insns)
                \o SubSeq(blocks[b], p + 1, Len(blocks[b]))]

remove_opcode(blocks, id) ==
    [b \in DOMAIN blocks |->
        LET p == Position(blocks[b], id)
        IN IF p = 0 THEN blocks[b]
           ELSE SubSeq(blocks[b], 1, p - 1) \o SubSeq(blocks[b], p + 1, Len(blocks[b]))]

\* the two loops that end peephole: [ok, blocks] after the first k edits
RECURSIVE apply_inserts(_, _, _)
apply_inserts(blocks, ins, k) ==
    IF k > Len(ins) THEN [ok |-> TRUE, blocks |-> blocks]
    ELSE IF ~Holds(blocks, ins[k].anchor) THEN [ok |-> FALSE, blocks |-> blocks]
    ELSE apply_inserts(insert_after(blocks, ins[k].anchor, ins[k].insns), ins, k + 1)

RECURSIVE apply_deletes(_, _, _)
apply_deletes(blocks, dels, k) ==
    IF k > Len(dels) THEN [ok |-> TRUE, blocks |-> blocks]
    ELSE IF ~Holds(blocks, dels[k]) THEN [ok |-> FALSE, blocks |-> blocks]
    ELSE apply_deletes(remove_opcode(blocks, dels[k]), dels, k + 1)

\* a variant that runs the loop over deletes before the loop over inserts
Apply_deletes_first ==
    /\ pc = "block"
    /\ block > Len(method)
    /\ LET deleted == apply_deletes(code, deletes, 1)
           inserted == apply_inserts(deleted.blocks, inserts, 1)
       IN IF ~deleted.ok THEN code' = deleted.blocks /\ pc' = "aborted"
          ELSE /\ code' = inserted.blocks
               /\ pc' = IF inserted.ok THEN "done" ELSE "aborted"
    /\ UNCHANGED <<disabled_peepholes, m_patterns, method, m_matchers,
                   m_matchers_stat, m_stats_removed, m_stats_inserted, deletes,
                   inserts, block, entry, cur, last, fed,
                   scope,
                   rewritten>>

Apply ==
    /\ pc = "block"
    /\ block > Len(method)
    /\ LET inserted == apply_inserts(code, inserts, 1)
           deleted == apply_deletes(inserted.blocks, deletes, 1)
       IN IF ~inserted.ok THEN code' = inserted.blocks /\ pc' = "aborted"
          ELSE /\ code' = deleted.blocks
               /\ pc' = IF deleted.ok THEN "done" ELSE "aborted"
    /\ UNCHANGED <<disabled_peepholes, m_patterns, method, m_matchers,
                   m_matchers_stat, m_stats_removed, m_stats_inserted, deletes,
                   inserts, block, entry, cur, last, fed,
                   scope,
                   rewritten>>

(***************************************************************************)
(* PeepholeOptimizerV2::run: walk_methods calls peephole on the next method *)
(* of the scope.  deletes and inserts are locals of peephole and start     *)
(* empty; the matchers and the counters are members and stay as they are.  *)
(***************************************************************************)
NextMethod ==
    /\ pc = "done"
    /\ scope # << >>
    /\ method' = Head(scope)
    /\ code' = Head(scope)
    /\ scope' = Tail(scope)
    /\ deletes' = << >>
    /\ inserts' = << >>
    /\ fed' = << >>
    /\ pc' = "block"
    /\ block' = 1
    /\ entry' = 1
    /\ cur' = 1
    /\ UNCHANGED <<disabled_peepholes, m_patterns, m_matchers, m_matchers_stat,
                   m_stats_removed, m_stats_inserted, last, rewritten>>

Next == StartBlock \/ EndBlock \/ SkipEntry \/ TryMatch \/ Fire \/ Apply

Spec == Init /\ [][Next]_vars

(***************************************************************************)
(* The code streams of the overview comment: the Before example with its   *)
(* two blocks, the retry example and the no-rescan example.  OverviewSpec  *)
(* runs the two rules of the comment over these streams and over their     *)
(* prefixes.                                                               *)
(***************************************************************************)
Letters(str) == [k \in DOMAIN str |-> OpcodeEntry(LetterInsn(str[k]))]

OverviewBefore ==
    Letters(<<"a", "a", "b", "c", "a", "b", "d", "a", "f", "b", "d", "a", "b">>)
    \o <<Boundary>> \o Letters(<<"c", "a", "b", "d">>)

OverviewAfter ==
    << <<"a", "x", "y", "z", "a", "f", "b", "d", "a", "b">>, <<"c", "y", "z">> >>

OverviewRetry == Letters(<<"a", "a", "b", "c">>)

OverviewNoRescan == Letters(<<"a", "b", "a", "b", "c">>)

\* a branch target entry in front of the stream
Targeted(flat) == <<OtherEntry>> \o flat

Prefixes(flat) == {SubSeq(flat, 1, k) : k \in 0..Len(flat)}

OverviewStreams ==
    Prefixes(OverviewBefore) \cup Prefixes(OverviewRetry)
    \cup Prefixes(OverviewNoRescan) \cup {Targeted(OverviewRetry)}

OverviewInit ==
    \E flat \in OverviewStreams :
        InitWith([catalog |-> overview_patterns, disabled |-> {}], MethodOf(flat))

OverviewSpec == OverviewInit /\ [][Next]_vars

\* the letters of the instructions of each block
LetterOf(insn) ==
    CHOOSE l \in {"a", "b", "c", "d", "f", "x", "y", "z"} : LetterMethod(l) = insn.method

LettersOf(blocks) ==
    [b \in DOMAIN blocks |-> [k \in DOMAIN blocks[b] |-> LetterOf(blocks[b][k].insn)]]

(***************************************************************************)
(* Methods for the whole catalog.  The instance of a rule is the block     *)
(* that its match sequence describes: element by element an instruction    *)
(* with one of the element's opcodes, placeholder register X as vreg X - 1 *)
(* (so that a pair register follows its base), the strings a and b for the *)
(* string placeholders A and B, and the given literal and type.            *)
(***************************************************************************)
LiteralOpcodes ==
    {"OPCODE_MUL_INT_LIT8", "OPCODE_MUL_INT_LIT16", "OPCODE_DIV_INT_LIT8",
     "OPCODE_DIV_INT_LIT16", "OPCODE_ADD_INT_LIT8", "OPCODE_ADD_INT_LIT16"}

InstanceOf(el, lit, typ) ==
    LET op == CHOOSE o \in el.opcodes : TRUE
    IN Insn(op,
            [j \in DOMAIN el.dests |-> el.dests[j] - 1],
            [j \in DOMAIN el.srcs |-> el.srcs[j] - 1],
            IF el.kind = "literal" \/ op \in LiteralOpcodes THEN lit ELSE 0,
            IF el.kind # "string" THEN NoString
            ELSE IF el.string = "A" THEN "a" ELSE "b",
            IF el.kind = "type" THEN typ ELSE NoType,
            el.method)

Instantiate(pattern, lit, typ) ==
    [k \in DOMAIN pattern.match |-> OpcodeEntry(InstanceOf(pattern.match[k], lit, typ))]

\* the literals and types of the instances: one the predicate of the rule
\* accepts, else a character, the bits of a float, a number
InstanceLiterals(pattern) ==
    IF pattern.predicate # << >> THEN {pattern.predicate[1]}
    ELSE IF pattern.name \in {"Coalesce_Init_AppendChar",
                              "Coalesce_AppendString_AppendChar",
                              "Replace_ValueOfChar"} THEN {97, 48}
    ELSE IF pattern.name = "Replace_ValueOfFloat" THEN {0, 1065353216}
    ELSE IF pattern.name \in {"Coalesce_AppendString_AppendInt",
                              "Replace_ValueOfInt"} THEN {0, 42, -7}
    ELSE IF \E k \in DOMAIN pattern.match : pattern.match[k].kind = "literal"
    THEN {0, 1}
    ELSE {0}

InstanceTypes(pattern) ==
    IF \E k \in DOMAIN pattern.match : pattern.match[k].kind = "type"
    THEN {"Ljava/lang/String;", "Lcom/foo/Bar;", "LFoo;"}
    ELSE {NoType}

InstanceStreams ==
    UNION {{Instantiate(get_all_patterns[i], lit, typ) :
                lit \in InstanceLiterals(get_all_patterns[i]),
                typ \in InstanceTypes(get_all_patterns[i])} :
           i \in DOMAIN get_all_patterns}

(***************************************************************************)
(* Blocks of the shapes that the string rules are written for, over a few  *)
(* registers and strings, with the variations that must keep a rule from   *)
(* firing.                                                                 *)
(***************************************************************************)
result_insn(opcode, d) == Insn(opcode, <<d>>, << >>, 0, NoString, NoType, NoMethod)

String_equals == make_method(LjavaString, "equals", "Z", <<LjavaObject>>)

String_length == make_method(LjavaString, "length", "I", << >>)

Entries(insns) == [k \in DOMAIN insns |-> OpcodeEntry(insns[k])]

\* new StringBuilder() in a, the string s in b, append(b) on r, the result in d
InitVoid_AppendString_Block(a, b, s, r, d) ==
    Entries(<<invoke_insn("OPCODE_INVOKE_DIRECT", <<a>>, StringBuilder_init),
              const_string_insn(b, s),
              invoke_insn("OPCODE_INVOKE_VIRTUAL", <<r, b>>, StringBuilder_append_String),
              result_insn("OPCODE_MOVE_RESULT_OBJECT", d)>>)

\* append(s) on a with the result in c, then append(t) on r
AppendString_AppendString_Block(a, b, c, d, r, s, t) ==
    Entries(<<const_string_insn(b, s),
              invoke_insn("OPCODE_INVOKE_VIRTUAL", <<a, b>>, StringBuilder_append_String),
              result_insn("OPCODE_MOVE_RESULT_OBJECT", c),
              const_string_insn(d, t),
              invoke_insn("OPCODE_INVOKE_VIRTUAL", <<r, d>>, StringBuilder_append_String)>>)

\* s in a, t in b, a.equals(b) with the result in c
StringCompare_Block(a, b, c, s, t) ==
    Entries(<<const_string_insn(a, s),
              const_string_insn(b, t),
              invoke_insn("OPCODE_INVOKE_VIRTUAL", <<a, b>>, String_equals),
              result_insn("OPCODE_MOVE_RESULT", c)>>)

\* two appends of constant strings, then the length of the second string
Appends_Then_Length ==
    AppendString_AppendString_Block(1, 2, 3, 4, 3, "a", "b")
    \o Entries(<<invoke_insn("OPCODE_INVOKE_VIRTUAL", <<4>>, String_length),
                 result_insn("OPCODE_MOVE_RESULT", 5)>>)

\* a redundant move behind a branch target, then a block with a string compare
Move_Then_Compare ==
    <<OtherEntry, OpcodeEntry(move_insn("OPCODE_MOVE", 3, 3)), Boundary>>
    \o StringCompare_Block(1, 2, 3, "x", "x")

\* the stream with an entry that is not an opcode entry behind each of its
\* instructions but the last
RECURSIVE Targets_Between(_)
Targets_Between(flat) ==
    IF Len(flat) <= 1 THEN flat
    ELSE <<Head(flat), OtherEntry>> \o Targets_Between(Tail(flat))

ShapedStreams ==
    {InitVoid_AppendString_Block(a, b, s, r, d) :
         a \in {1, 3}, b \in {1, 2}, s \in {"hi", ""}, r \in {1, 3}, d \in {1, 3}}
    \cup {AppendString_AppendString_Block(1, 2, c, d, r, s, t) :
              c \in {1, 3}, d \in {2, 4}, r \in {1, 3}, s \in {"x", ""}, t \in {"y", ""}}
    \cup {StringCompare_Block(a, b, c, s, t) :
              a \in {1, 2}, b \in {1, 2}, c \in {3, 16}, s \in {"x", "y"}, t \in {"x", "y"}}
    \cup {Appends_Then_Length, Move_Then_Compare}
    \cup {flat \o <<Boundary>> \o flat : flat \in InstanceStreams}
    \cup {Targets_Between(flat) : flat \in InstanceStreams}

\* the lists of disabled rule names the constructor is called with
DisabledLists ==
    { {"Remove_Redundant_Move"},
      {"No_Such_Rule"},
      {"CompileTime_StringCompare", "No_Such_Rule"},
      {"Coalesce_InitVoid_AppendString", "Arith_AddLit_0"},
      AllNames }

DisabledStreams ==
    {Move_Then_Compare, InitVoid_AppendString_Block(1, 2, "hi", 1, 1),
     Entries(<<lit_insn("OPCODE_ADD_INT_LIT8", 3, 7, 0)>>)}

(***************************************************************************)
(* A rule outside the catalog that the Pattern type admits: a const-string *)
(* that is overwritten by the next one is dropped.  Its replacement names  *)
(* the string placeholder B.                                               *)
(***************************************************************************)
Keep_Second_String ==
    Pattern("Keep_Second_String",
            <<const_string(Register_A, "A"), const_string(Register_A, "B")>>,
            <<const_string(Register_A, "B")>>,
            << >>)

Second_String_Streams ==
    {Targeted(Entries(<<const_string_insn(1, s), const_string_insn(d, t)>>)) :
         s \in {"x", "y"}, t \in {"x", "y"}, d \in {1, 2}}

CatalogInit ==
    \/ \E flat \in InstanceStreams \cup ShapedStreams :
           InitWith([catalog |-> get_all_patterns, disabled |-> {}], MethodOf(flat))
    \/ \E disabled \in DisabledLists, flat \in DisabledStreams :
           InitWith([catalog |-> get_all_patterns, disabled |-> disabled],
                    MethodOf(flat))

CatalogSpec == CatalogInit /\ [][Next]_vars

\* the catalog extended by Keep_Second_String
SecondStringInit ==
    \E flat \in Second_String_Streams :
        InitWith([catalog |-> get_all_patterns \o <<Keep_Second_String>>,
                  disabled |-> {}], MethodOf(flat))

SecondStringSpec == SecondStringInit /\ [][Next]_vars

(***************************************************************************)
(* Methods of a single arithmetic or move instruction, over registers at   *)
(* and around the 4-bit limit and up to the largest register number, and   *)
(* over literals at and around those the predicates ask for.               *)
(***************************************************************************)
SingleInsnStreams ==
    {Entries(<<lit_insn(op, d, src, lit)>>) :
         op \in LiteralOpcodes, d \in {3, 15, 16, 300, 65535},
         src \in {7, 15, 16, 300, 65535}, lit \in {-1, 0, 1, 2, 255}}
    \cup {Entries(<<move_insn(op, d, src)>>) :
              op \in {"OPCODE_MOVE", "OPCODE_MOVE_OBJECT", "OPCODE_MOVE_16"},
              d \in {0, 3, 16, 300}, src \in {0, 3, 16, 300}}
    \cup {Targeted(Entries(<<lit_insn("OPCODE_MUL_INT_LIT8", 3, 7, -1)>>))}

SingleInsnInit ==
    \E flat \in SingleInsnStreams :
        InitWith([catalog |-> get_all_patterns, disabled |-> {}], MethodOf(flat))

SingleInsnSpec == SingleInsnInit /\ [][Next]_vars

(***************************************************************************)
(* Scopes of two methods: a first method that leaves matchers in the       *)
(* middle of a match or fires a rule, and a second method that would       *)
(* complete such a match or fires a rule itself.                           *)
(***************************************************************************)
RunInit ==
    \E first \in {Entries(<<const_insn("OPCODE_CONST_4", 0, 1)>>),
                  Entries(<<const_string_insn(1, "x"), const_string_insn(2, "x")>>),
                  SubSeq(InitVoid_AppendString_Block(1, 2, "hi", 1, 1), 1, 3),
                  StringCompare_Block(1, 2, 3, "x", "y"),
                  Move_Then_Compare},
       second \in {Entries(<<invoke_insn("OPCODE_INVOKE_STATIC", <<0>>,
                                         String_valueOf("Z")),
                             result_insn("OPCODE_MOVE_RESULT_OBJECT", 1)>>),
                   Entries(<<invoke_insn("OPCODE_INVOKE_VIRTUAL", <<1, 2>>,
                                         String_equals),
                             result_insn("OPCODE_MOVE_RESULT", 3)>>),
                   Entries(<<result_insn("OPCODE_MOVE_RESULT_OBJECT", 1)>>),
                   InitVoid_AppendString_Block(1, 2, "hi", 1, 1),
                   Move_Then_Compare} :
        InitWith([catalog |-> get_all_patterns, disabled |-> {},
                  scope |-> <<MethodOf(second)>>], MethodOf(first))

RunSpec == RunInit /\ [][Next \/ NextMethod]_vars

(***************************************************************************)
(* The literal directives of get_replacements on their own: Literal::A is  *)
(* bound to an int64_t, String::A to a string, and a const-string of the   *)
(* replacement is rewritten by one of the directives.                      *)
(***************************************************************************)
\* the bound literals: 0, 1, 2, 42, 65536, -1, -7, 2^32, 2^32 + 5, 2^31 + 1,
\* 2^32 - 1, -2^32 - 7, the largest and the smallest int64_t
BoundLiterals ==
    { <<0, 0, 0, 0>>, <<0, 0, 0, 1>>, <<0, 0, 0, 2>>, <<0, 0, 0, 42>>,
      <<0, 0, 1, 0>>, <<65535, 65535, 65535, 65535>>,
      <<65535, 65535, 65535, 65529>>, <<0, 1, 0, 0>>, <<0, 1, 0, 5>>,
      <<0, 0, 32768, 1>>, <<0, 0, 65535, 65535>>,
      <<65535, 65534, 65535, 65529>>, <<32767, 65535, 65535, 65535>>,
      <<32768, 0, 0, 0>> }

LiteralDirectives ==
    {"boolean_A_to_string", "int_A_to_string", "long_int_A_to_string",
     "concat_string_A_int_A", "concat_string_A_boolean_A",
     "concat_string_A_long_int_A"}

LiteralInit ==
    \E a \in BoundLiterals, s \in {"", "x"} :
        InitWith([catalog |-> get_all_patterns, disabled |-> {},
                  rewritten |-> [literal_A |-> a, string_A |-> s,
                                 directive |-> "", string |-> ""]],
                 MethodOf(<< >>))

\* case String::<directive>: rewrite_string(...) with the bound values
Rewrite ==
    \E directive \in LiteralDirectives :
        LET m == Matcher(0, << >>, NoBinding, "A" :> rewritten.string_A,
                         "A" :> rewritten.literal_A, NoBinding)
            made == string_switch(m, directive)
        IN /\ ~made.abort
           /\ rewritten' = [rewritten EXCEPT !.directive = directive,
                                             !.string = made.value]
           /\ UNCHANGED <<disabled_peepholes, m_patterns, method, code, m_matchers,
                          m_matchers_stat, m_stats_removed, m_stats_inserted,
                          deletes, inserts, pc, block, entry, cur, last, fed, scope>>

LiteralSpec == LiteralInit /\ [][Rewrite]_vars

(***************************************************************************)
(* Observations on the latest try_match call, recomputed from the matcher  *)
(* state before the call and the instruction that was fed.                 *)
(***************************************************************************)
CalledPattern == PatternOf(last.matcher)

Observed == last.called /\ last.path # "assert"

\* the test of the instruction against the element at the cursor
FirstTest ==
    match_instruction(CalledPattern, last.before,
                      CalledPattern.match[last.before.match_index + 1],
                      InsnsOf(method)[last.id])

\* the test of the same instruction against element 0 from a reset matcher
RetryTest ==
    match_instruction(CalledPattern, reset, CalledPattern.match[1],
                      InsnsOf(method)[last.id])

\* the instructions the matcher holds once the instruction is processed
HandledInstructions ==
    IF FirstTest.ok THEN Append(last.before.matched_instructions, last.id)
    ELSE IF last.before.match_index = 1 /\ RetryTest.ok THEN <<last.id>>
    ELSE << >>

\* the cursor once the instruction is processed
HandledCursor ==
    IF FirstTest.ok THEN last.before.match_index + 1
    ELSE IF last.before.match_index = 1 /\ RetryTest.ok THEN 1
    ELSE 0

\* the rule has no predicate, or its predicate accepts the processed match
PredicateAccepts ==
    \/ CalledPattern.predicate = << >>
    \/ /\ HandledInstructions # << >>
       /\ InsnsOf(method)[Head(HandledInstructions)].literal
              = CalledPattern.predicate[1]

\* the call failed because the instruction matched no element
FailedElementTest ==
    /\ Observed
    /\ ~FirstTest.ok
    /\ last.before.match_index = 1 => ~RetryTest.ok

\* the call went on from the state before it without a reset
WentOn ==
    /\ Observed
    /\ last.after.matched_instructions
           = Append(last.before.matched_instructions, last.id)

Submap(f, g) == \A k \in DOMAIN f : k \in DOMAIN g /\ g[k] = f[k]

\* the identity of the block that holds the instruction id
BlockOf(id) == CHOOSE b \in DOMAIN method : Position(method[b], id) # 0

\* id and next lie in one block, in order, with no opcode entry between them
Adjacent(id, next) ==
    /\ id < next
    /\ BlockOf(id) = BlockOf(next)
    /\ \A between \in (id + 1)..(next - 1) :
           Flatten(method)[between].type # "MFLOW_OPCODE"

\* the operands of the matched instruction k of matcher i equal the values
\* bound to the placeholders of element k
AgreesWithBindings(i, k) ==
    LET m == m_matchers[i]
        el == PatternOf(i).match[k]
        insn == InsnsOf(method)[m.matched_instructions[k]]
    IN /\ \A j \in DOMAIN el.dests :
              /\ el.dests[j] \in DOMAIN m.matched_regs
              /\ m.matched_regs[el.dests[j]] = insn.dests[j]
       /\ \A j \in DOMAIN el.srcs :
              /\ el.srcs[j] \in DOMAIN m.matched_regs
              /\ m.matched_regs[el.srcs[j]] = insn.srcs[j]
       /\ el.kind = "string" /\ el.string # "empty" =>
              /\ el.string \in DOMAIN m.matched_strings
              /\ m.matched_strings[el.string] = insn.string
       /\ el.kind = "literal" =>
              /\ el.literal \in DOMAIN m.matched_literals
              /\ m.matched_literals[el.literal] = insn.literal
       /\ el.kind = "type" =>
              /\ el.type \in DOMAIN m.matched_types
              /\ m.matched_types[el.type] = insn.type

\* the placeholders of the element at the cursor that the state before the
\* call leaves unbound and whose register in the fed instruction is beyond
\* the width limit of the placeholder
UnfitNewBinding ==
    LET el == CalledPattern.match[last.before.match_index + 1]
        insn == InsnsOf(method)[last.id]
        unfit(reg, value) ==
            /\ reg \notin DOMAIN last.before.matched_regs
            /\ value >= 2 ^ CalledPattern.register_width_limits[reg]
    IN /\ insn.opcode \in el.opcodes
       /\ Len(el.srcs) = Len(insn.srcs)
       /\ Len(el.dests) = Len(insn.dests)
       /\ \/ \E j \in DOMAIN el.dests : unfit(el.dests[j], insn.dests[j])
          \/ \E j \in DOMAIN el.srcs : unfit(el.srcs[j], insn.srcs[j])

(***************************************************************************)
(* Properties of Matcher::try_match.                                       *)
(***************************************************************************)

\* C1: try_match returns true if and only if, once the instruction is
\* processed, the cursor equals the length of the rule's match sequence and
\* the rule's predicate, if it has one, accepts; partial progress and every
\* other case return false.
C1_TrueIffCompleteAndAccepted ==
    Observed =>
        (last.ret <=> /\ HandledCursor = Len(CalledPattern.match)
                      /\ PredicateAccepts)

\* a call on a rule with a predicate completed the match and returned true
C1_Witness ==
    /\ Observed
    /\ last.ret
    /\ CalledPattern.predicate # << >>
    /\ last.after.match_index = Len(CalledPattern.match)

\* C2: when the element at the cursor rejects the instruction and the cursor
\* is 1, the matcher resets and tests the instruction against element 0, and
\* goes to cursor 1 with only that instruction's bindings when it matches; at
\* cursor 0 or at cursor 2 and beyond it resets and returns false without
\* testing again.  So the rule [a b c] fed 'a a b c' matches on c.
C2_RetryOnlyAtCursorOne ==
    /\ Observed /\ ~FirstTest.ok /\ last.before.match_index = 1 /\ RetryTest.ok =>
           /\ ~last.ret
           /\ last.after = [RetryTest.m EXCEPT !.match_index = 1,
                                               !.matched_instructions = <<last.id>>]
    /\ Observed /\ ~FirstTest.ok /\ last.before.match_index # 1 =>
           /\ ~last.ret
           /\ last.after = reset
    /\ /\ method = MethodOf(OverviewRetry)
       /\ last.called /\ last.matcher = 1 /\ last.id = 4
       => last.ret

\* the rule [a b c] has been fed the c of 'a a b c' and returned true
C2_Witness ==
    /\ method = MethodOf(OverviewRetry)
    /\ last.called /\ last.matcher = 1 /\ last.id = 4
    /\ last.before.matched_instructions = <<2, 3>>
    /\ last.ret

\* C6: the rule [a b c] fed 'a b a b c' from the reset state never returns
\* true: the third instruction fails at cursor 2, is not tested against
\* element 0, and leaves the matcher reset.
C6_NoRescan ==
    /\ method = MethodOf(OverviewNoRescan) /\ last.called /\ last.matcher = 1 =>
           /\ ~last.ret
           /\ last.id = 3 => /\ last.before.match_index = 2
                             /\ RetryTest.ok
                             /\ last.after = reset
    /\ method = MethodOf(OverviewNoRescan) => m_matchers_stat[1] = 0

\* the rule [a b c] has been fed the last instruction of 'a b a b c'
C6_Witness ==
    /\ method = MethodOf(OverviewNoRescan)
    /\ last.called /\ last.matcher = 1 /\ last.id = 5
    /\ ~last.ret
    /\ last.before = reset
    /\ m_matchers_stat[1] = 0

\* C7: after every try_match call that fails because the instruction matched
\* no element, the failed retry against element 0 included, the matcher is
\* in the reset state: cursor 0, no matched instruction, four empty maps.
C7_FailedCallLeavesReset ==
    FailedElementTest => last.after = reset

\* C8: between two resets a bound placeholder keeps its value, and every
\* matched instruction's operand at a position that carries a placeholder
\* equals the value bound to it.
C8_BindingConsistency ==
    /\ \A i \in DOMAIN m_matchers :
           \A k \in DOMAIN m_matchers[i].matched_instructions :
               AgreesWithBindings(i, k)
    /\ WentOn =>
           /\ Submap(last.before.matched_regs, last.after.matched_regs)
           /\ Submap(last.before.matched_strings, last.after.matched_strings)
           /\ Submap(last.before.matched_literals, last.after.matched_literals)
           /\ Submap(last.before.matched_types, last.after.matched_types)

\* a full match of Coalesce_InitVoid_AppendString, whose placeholder A occurs
\* in three elements and B in two
C8_Witness ==
    /\ pc = "matched"
    /\ PatternOf(cur).name = "Coalesce_InitVoid_AppendString"
    /\ m_matchers[cur].match_index = Len(PatternOf(cur).match)
    /\ m_matchers[cur].matched_regs[Register_A] = 1
    /\ WentOn

\* C9: every bound symbolic register r holds a number below
\* 2^register_width_limits[r], and an instruction whose register would newly
\* bind a placeholder to a number beyond the limit is rejected by the
\* element at the cursor.
C9_WidthSafety ==
    /\ \A i \in DOMAIN m_matchers :
           \A r \in DOMAIN m_matchers[i].matched_regs :
               m_matchers[i].matched_regs[r]
                   < 2 ^ PatternOf(i).register_width_limits[r]
    /\ Observed /\ UnfitNewBinding =>
           /\ ~WentOn
           /\ ~last.ret
           /\ last.before.match_index # 1 => last.after = reset

\* Arith_MulDivLit_Neg1, whose limit for B is 4 bits, has been fed
\* mul-int/lit8 v3, v17, #-1 and rejected it
C9_Witness ==
    /\ Observed
    /\ CalledPattern.name = "Arith_MulDivLit_Neg1"
    /\ InsnsOf(method)[last.id].srcs = <<17>>
    /\ UnfitNewBinding
    /\ ~last.ret

\* C10: whenever a pair placeholder pair_X is bound, X is bound and the
\* number of pair_X is the number of X plus 1.
C10_PairFollowsBase ==
    \A i \in DOMAIN m_matchers :
        \A X \in {Register_A, Register_B, Register_C, Register_D} :
            get_pair_register(X) \in DOMAIN m_matchers[i].matched_regs =>
                /\ X \in DOMAIN m_matchers[i].matched_regs
                /\ m_matchers[i].matched_regs[get_pair_register(X)]
                       = m_matchers[i].matched_regs[X] + 1

(***************************************************************************)
(* Properties of the driver PeepholeOptimizerV2::peephole.                 *)
(***************************************************************************)

\* C3: once a matcher has returned true and the driver has handled the
\* match, every enabled matcher is in the reset state before the next
\* instruction is fed.
C3_AllMatchersResetAfterMatch ==
    last.called /\ last.ret /\ pc \notin {"matched", "aborted"} =>
        \A i \in DOMAIN m_matchers : m_matchers[i] = reset

\* C4: at every firing the instructions the matcher has recorded are
\* consecutive opcode instructions of one block in program order: no
\* instruction of the block lies between two successive ones.
C4_MatchedInstructionsConsecutive ==
    pc = "matched" =>
        LET mi == m_matchers[cur].matched_instructions
        IN \A k \in 1..(Len(mi) - 1) : Adjacent(mi[k], mi[k + 1])

\* C5: the rules [a b c] -> [x] and [a b d] -> [y z] turn the blocks
\* 'a a b c a b d a f b d a b' and 'c a b d' into 'a x y z a f b d a b' and
\* 'c y z'.
C5_OverviewExample ==
    pc = "done" /\ method = MethodOf(OverviewBefore) =>
        LettersOf(code) = OverviewAfter

\* the number of calls in which matcher i returned true
Completions(i) == Cardinality({k \in DOMAIN fed : fed[k].matcher = i /\ fed[k].ret})

\* C11: for each instruction the driver feeds the matchers in catalog order
\* from the first one and stops at the first that returns true: the matchers
\* before the winner were fed the instruction and returned false, no matcher
\* behind it is fed the instruction, no instruction is fed again later, and
\* the rule that fires is the one that returned true.
C11_FirstCompletingMatcherWins ==
    /\ \A k \in DOMAIN fed :
           IF k > 1 /\ fed[k - 1].id = fed[k].id
           THEN /\ ~fed[k - 1].ret
                /\ fed[k].matcher = fed[k - 1].matcher + 1
           ELSE /\ fed[k].matcher = 1
                /\ k > 1 => fed[k - 1].id < fed[k].id
    /\ pc \notin {"matched", "aborted"} =>
           \A i \in DOMAIN m_matchers : m_matchers_stat[i] = Completions(i)

\* the first of two matchers has fired on an instruction and the driver has
\* gone on: the second matcher was not fed that instruction
C11_Witness ==
    /\ Len(m_matchers) = 2
    /\ pc = "entry"
    /\ fed # << >>
    /\ fed[Len(fed)].ret
    /\ fed[Len(fed)].matcher = 1
    /\ m_matchers_stat[1] = 1
    /\ entry > 1
    /\ method[block][entry - 1].id = fed[Len(fed)].id

(***************************************************************************)
(* The firings recorded so far: the calls of try_match that returned true. *)
(***************************************************************************)
Firings == SelectSeq(fed, LAMBDA f : f.ret)

RECURSIVE SumOver(_, _)
SumOver(f(_), firings) ==
    IF firings = << >> THEN 0
    ELSE f(Head(firings)) + SumOver(f, Tail(firings))

MatchLength(f) == Len(m_patterns[f.matcher].match)

ReplaceLength(f) == Len(m_patterns[f.matcher].replace)

RECURSIVE SumStat(_)
SumStat(i) == IF i = 0 THEN 0 ELSE m_matchers_stat[i] + SumStat(i - 1)

\* C14: once a firing has been accounted for, the removed counter is the sum
\* of the lengths of the match sequences of all firings, the inserted counter
\* is the sum of the lengths of their replace sequences, and the per-rule
\* counters add up to the number of firings.
C14_StatisticsConservation ==
    pc \notin {"matched", "aborted"} =>
        /\ m_stats_removed = SumOver(MatchLength, Firings)
        /\ m_stats_inserted = SumOver(ReplaceLength, Firings)
        /\ SumStat(Len(m_matchers)) = Len(Firings)

\* two firings of rules whose match and replace lengths differ are accounted
C14_Witness ==
    /\ pc = "done"
    /\ Len(Firings) >= 2
    /\ m_stats_removed = SumOver(MatchLength, Firings)
    /\ m_stats_removed > m_stats_inserted
    /\ m_stats_inserted > 0

(***************************************************************************)
(* The block that the edits are meant to produce: the original entries in  *)
(* order without the matched instructions of the firings, with the         *)
(* replacement of a firing where its completing instruction stood.         *)
(***************************************************************************)
RECURSIVE Concat(_)
Concat(seqs) == IF seqs = << >> THEN << >> ELSE Head(seqs) \o Concat(Tail(seqs))

MatchedOf(firings) == Concat([k \in DOMAIN firings |-> firings[k].matched])

ReplacementAt(id) ==
    Concat([k \in DOMAIN inserts |->
               IF inserts[k].anchor = id THEN NewEntries(inserts[k].insns) ELSE << >>])

RECURSIVE ReplacedInPlace(_, _)
ReplacedInPlace(blk, k) ==
    IF k > Len(blk) THEN << >>
    ELSE (IF blk[k].id \in SeqToSet(MatchedOf(Firings)) THEN << >> ELSE <<blk[k]>>)
         \o ReplacementAt(blk[k].id) \o ReplacedInPlace(blk, k + 1)

\* C12: exactly the matched instructions of the firings are queued for
\* deletion, one replacement per firing is queued behind the instruction that
\* completed the match, the edits at the end of peephole are carried out, and
\* the blocks then are the original blocks with each matched run replaced in
\* place and everything else unchanged in order.
C12_EditsReplaceMatchedRuns ==
    /\ pc \notin {"matched", "aborted"} =>
           /\ deletes = MatchedOf(Firings)
           /\ Len(inserts) = Len(Firings)
           /\ \A k \in DOMAIN inserts : inserts[k].anchor = Firings[k].id
    /\ block > Len(method) => pc # "aborted"
    /\ pc = "done" =>
           code = [b \in DOMAIN method |-> ReplacedInPlace(method[b], 1)]

\* the state after construction, before the first block is looked at
Constructed == pc = "block" /\ block = 1 /\ ~last.called

\* C13: the matchers are those of the catalog rules whose name is not in the
\* disabled list, in catalog order, so a name that no rule has changes
\* nothing; a disabled rule has no matcher and no counter, and it never fires.
C13_DisabledRulesNeverRun ==
    /\ Constructed =>
           /\ m_patterns = SelectSeq(get_all_patterns,
                                     LAMBDA r : r.name \notin disabled_peepholes)
           /\ disabled_peepholes \cap AllNames = {} => m_patterns = get_all_patterns
    /\ Len(m_matchers) = Len(m_patterns)
    /\ Len(m_matchers_stat) = Len(m_patterns)
    /\ \A i \in DOMAIN m_patterns : m_patterns[i].name \notin disabled_peepholes
    /\ \A k \in DOMAIN fed : fed[k].matcher \in DOMAIN m_patterns

\* with CompileTime_StringCompare and an unknown name disabled the redundant
\* move is removed and the string compare of the second block is left alone
C13_Witness ==
    /\ pc = "done"
    /\ disabled_peepholes = {"CompileTime_StringCompare", "No_Such_Rule"}
    /\ Len(m_patterns) = 19
    /\ Len(method) = 2
    /\ code[2] = method[2]
    /\ Len(method[2]) = 4
    /\ code[1] # method[1]
    /\ m_stats_removed = 1

\* C15: every rule that has a matcher has between one and five match
\* elements and at most as many replace elements; no firing queues more
\* instructions for insertion than for deletion, and no block is longer
\* after the edits than before.
C15_RulesNeverGrowCode ==
    /\ \A i \in DOMAIN m_patterns :
           /\ Len(m_patterns[i].match) \in 1..5
           /\ Len(m_patterns[i].replace) <= Len(m_patterns[i].match)
    /\ pc \notin {"matched", "aborted"} =>
           /\ Len(inserts) = Len(Firings)
           /\ \A k \in DOMAIN inserts :
                  Len(inserts[k].insns) <= Len(Firings[k].matched)
    /\ pc = "done" => \A b \in DOMAIN method : Len(code[b]) <= Len(method[b])

\* a rule with one match and one replace element has fired and the block
\* has kept its length
C15_Witness ==
    /\ pc = "done"
    /\ Len(m_patterns) = 20
    /\ Len(Firings) = 1
    /\ Len(m_patterns[Firings[1].matcher].replace) = 1
    /\ Len(m_patterns[Firings[1].matcher].match) = 1
    /\ code # method
    /\ Len(code[1]) = Len(method[1])

\* C16: whenever try_match has returned true for a rule of the catalog,
\* get_replacements on that matcher runs to its end: every placeholder the
\* replacement names is bound, every replace element has exactly one opcode
\* that generate_dex_instruction supports, and a copied index lies within
\* the matched instructions.
C16_ReplacementsNeverAbort ==
    /\ pc = "matched" =>
           ~get_replacements(PatternOf(cur), m_matchers[cur], InsnsOf(method)).abort
    /\ pc = "aborted" => block > Len(method)

\* Remove_LangClass_GetSimpleName has fired on the class Lcom/foo/Bar; and
\* its replacement, the copied const-class and the const-string, is queued
C16_Witness ==
    /\ pc = "entry"
    /\ Len(inserts) = 1
    /\ m_patterns[Firings[1].matcher].name = "Remove_LangClass_GetSimpleName"
    /\ Len(inserts[1].insns) = 2
    /\ inserts[1].insns[1] = InsnsOf(method)[Firings[1].matched[1]]
    /\ inserts[1].insns[1].type = "Lcom/foo/Bar;"
    /\ inserts[1].insns[2].opcode = "OPCODE_CONST_STRING"
    /\ inserts[1].insns[2].string = "Bar"

\* the instruction synthesized for replace element k of the rule that matched
Synthesized(k) == replacement(m_matchers[cur], PatternOf(cur).replace[k], InsnsOf(method))

InsnsIn(blk) == [k \in DOMAIN blk |-> blk[k].insn]

OneBlock(n) == Len(method) = 1 /\ Len(method[1]) = n

Original(k) == method[1][k].insn

FiredCount(name) ==
    Cardinality({k \in DOMAIN Firings : m_patterns[Firings[k].matcher].name = name})

\* the block is: invoke-direct {a} <init>()V; const-string b, s;
\* invoke-virtual {r, b} append(String); move-result-object d
InitVoidShape ==
    /\ OneBlock(4)
    /\ Len(m_patterns) = 20
    /\ Original(1).opcode = "OPCODE_INVOKE_DIRECT"
    /\ Original(1).method = StringBuilder_init
    /\ Len(Original(1).srcs) = 1
    /\ Original(2).opcode = "OPCODE_CONST_STRING"
    /\ Original(3).opcode = "OPCODE_INVOKE_VIRTUAL"
    /\ Original(3).method = StringBuilder_append_String
    /\ Original(3).srcs[2] = Original(2).dests[1]
    /\ Original(4).opcode = "OPCODE_MOVE_RESULT_OBJECT"

\* C18: with the whole catalog, the block [invoke-direct {a} <init>()V;
\* const-string b, s; invoke-virtual {a, b} append(String);
\* move-result-object a] ends as [const-string b, s; invoke-direct {a, b}
\* <init>(String)V]; when the receiver of the append or the destination of
\* the move-result-object is not a, Coalesce_InitVoid_AppendString does not
\* fire and the block is left as it is.
C18_InitVoidAppendString ==
    InitVoidShape =>
        LET a == Original(1).srcs[1]
            b == Original(2).dests[1]
        IN IF Original(3).srcs[1] = a /\ Original(4).dests[1] = a
           THEN /\ pc # "aborted"
                /\ pc = "done" =>
                       InsnsIn(code[1])
                           = <<const_string_insn(b, Original(2).string),
                               invoke_insn("OPCODE_INVOKE_DIRECT", <<a, b>>,
                                           make_method(LjavaStringBuilder, "<init>",
                                                       "V", <<LjavaString>>))>>
           ELSE /\ FiredCount("Coalesce_InitVoid_AppendString") = 0
                /\ pc = "done" => code = method

\* the example of the rule has been rewritten
C18_Witness ==
    /\ pc = "done"
    /\ InitVoidShape
    /\ Original(1).srcs = <<1>>
    /\ Original(2).dests = <<2>>
    /\ Original(2).string = "hi"
    /\ Original(3).srcs = <<1, 2>>
    /\ Original(4).dests = <<1>>
    /\ Len(code[1]) = 2
    /\ code[1][1].insn.string = "hi"
    /\ code[1][2].insn.srcs = <<1, 2>>
    /\ FiredCount("Coalesce_InitVoid_AppendString") = 1

\* the block is: const-string b, s; invoke-virtual {a, b} append(String);
\* move-result-object c; const-string d, t; invoke-virtual {c, d} append(String)
AppendAppendShape ==
    /\ OneBlock(5)
    /\ Len(m_patterns) = 20
    /\ Original(1).opcode = "OPCODE_CONST_STRING"
    /\ Original(2).opcode = "OPCODE_INVOKE_VIRTUAL"
    /\ Original(2).method = StringBuilder_append_String
    /\ Original(2).srcs[2] = Original(1).dests[1]
    /\ Original(3).opcode = "OPCODE_MOVE_RESULT_OBJECT"
    /\ Original(4).opcode = "OPCODE_CONST_STRING"
    /\ Original(5).opcode = "OPCODE_INVOKE_VIRTUAL"
    /\ Original(5).method = StringBuilder_append_String
    /\ Original(5).srcs = <<Original(3).dests[1], Original(4).dests[1]>>

\* C19: with the whole catalog, the block [const-string b, s; invoke-virtual
\* {a, b} append(String); move-result-object c; const-string d, t;
\* invoke-virtual {c, d} append(String)] ends as [const-string b, s followed
\* by t; invoke-virtual {a, b} append(String)].
C19_AppendStringAppendString ==
    AppendAppendShape =>
        /\ pc # "aborted"
        /\ pc = "done" =>
               InsnsIn(code[1])
                   = <<const_string_insn(Original(1).dests[1],
                                         Original(1).string \o Original(4).string),
                       invoke_insn("OPCODE_INVOKE_VIRTUAL", Original(2).srcs,
                                   StringBuilder_append_String)>>

\* the appends of "x" and "y" have become one append of "xy"
C19_Witness ==
    /\ pc = "done"
    /\ AppendAppendShape
    /\ Original(1).string = "x"
    /\ Original(4).string = "y"
    /\ Original(3).dests = <<3>>
    /\ Original(4).dests = <<4>>
    /\ Len(code[1]) = 2
    /\ code[1][1].insn.string = "xy"
    /\ code[1][1].insn.dests = <<2>>
    /\ code[1][2].insn.srcs = <<1, 2>>

\* the block is: const-string a, s; const-string b, t;
\* invoke-virtual {a, b} String.equals(Object); move-result c, with c a
\* register that const/4 can name
StringCompareShape ==
    /\ OneBlock(4)
    /\ Len(m_patterns) = 20
    /\ Original(1).opcode = "OPCODE_CONST_STRING"
    /\ Original(2).opcode = "OPCODE_CONST_STRING"
    /\ Original(3).opcode = "OPCODE_INVOKE_VIRTUAL"
    /\ Original(3).method = String_equals
    /\ Original(3).srcs = <<Original(1).dests[1], Original(2).dests[1]>>
    /\ Original(4).opcode = "OPCODE_MOVE_RESULT"
    /\ Original(4).dests[1] < 16

\* the registers once the two const-string instructions have run
RegistersAtInvoke ==
    (Original(2).dests[1] :> Original(2).string)
    @@ (Original(1).dests[1] :> Original(1).string)

\* what String.equals returns at the invoke, as the value of move-result
EqualsAtInvoke ==
    IF RegistersAtInvoke[Original(3).srcs[1]] = RegistersAtInvoke[Original(3).srcs[2]]
    THEN 1 ELSE 0

\* C20: with the whole catalog, the block [const-string a, s; const-string
\* b, t; invoke-virtual {a, b} String.equals(Object); move-result c] ends as
\* the single instruction const/4 c, k, where k is 1 if s and t are the same
\* string and 0 otherwise, and k is the value String.equals returns for the
\* strings that the registers a and b hold at the invoke.
C20_StringCompare ==
    StringCompareShape =>
        /\ pc # "aborted"
        /\ pc = "done" =>
               /\ InsnsIn(code[1])
                      = <<const_insn("OPCODE_CONST_4", Original(4).dests[1],
                                     IF Original(1).string = Original(2).string
                                     THEN 1 ELSE 0)>>
               /\ code[1][1].insn.literal = EqualsAtInvoke

\* the method is the single instruction op d, s, #L with op one of
\* mul-int/lit8, mul-int/lit16, div-int/lit8, div-int/lit16
MulDivLitShape ==
    /\ OneBlock(1)
    /\ Len(m_patterns) = 20
    /\ Original(1).opcode \in {"OPCODE_MUL_INT_LIT8", "OPCODE_MUL_INT_LIT16",
                               "OPCODE_DIV_INT_LIT8", "OPCODE_DIV_INT_LIT16"}

\* C21: on a single mul-int or div-int by a literal, Arith_MulDivLit_Neg1
\* fires if and only if the literal is -1 and the destination and the source
\* are below 16; the instruction then is replaced by neg-int with the same
\* destination and source.
C21_MulDivLitNeg1 ==
    MulDivLitShape =>
        LET d == Original(1).dests[1]
            src == Original(1).srcs[1]
            fits == Original(1).literal = -1 /\ d < 16 /\ src < 16
        IN /\ FiredCount("Arith_MulDivLit_Neg1") > 0 => fits
           /\ pc # "aborted"
           /\ pc = "done" /\ fits =>
                  /\ FiredCount("Arith_MulDivLit_Neg1") = 1
                  /\ InsnsIn(code[1]) = <<move_insn("OPCODE_NEG_INT", d, src)>>
           /\ pc = "done" /\ Original(1).literal = -1 /\ ~fits => code = method

\* mul-int/lit8 v3, v7, #-1 has become neg-int v3, v7
C21_Witness ==
    /\ pc = "done"
    /\ MulDivLitShape
    /\ Original(1) = lit_insn("OPCODE_MUL_INT_LIT8", 3, 7, -1)
    /\ FiredCount("Arith_MulDivLit_Neg1") = 1
    /\ Len(code[1]) = 1
    /\ code[1][1].insn.opcode = "OPCODE_NEG_INT"
    /\ code[1][1].insn.dests = <<3>>
    /\ code[1][1].insn.srcs = <<7>>

\* C22: on a single mul-int or div-int by a literal, Arith_MulDivLit_Pos1
\* fires only when the literal is 1, and then it fires whatever the register
\* numbers are, up to 65535, and leaves move/16 with the same destination
\* and source.
C22_MulDivLitPos1 ==
    MulDivLitShape =>
        LET d == Original(1).dests[1]
            src == Original(1).srcs[1]
        IN /\ FiredCount("Arith_MulDivLit_Pos1") > 0 => Original(1).literal = 1
           /\ pc # "aborted"
           /\ pc = "done" /\ Original(1).literal = 1 =>
                  /\ FiredCount("Arith_MulDivLit_Pos1") = 1
                  /\ InsnsIn(code[1]) = <<move_insn("OPCODE_MOVE_16", d, src)>>

\* mul-int/lit8 v300, v300, #1 has become move/16 v300, v300
C22_Witness ==
    /\ pc = "done"
    /\ MulDivLitShape
    /\ Original(1) = lit_insn("OPCODE_MUL_INT_LIT8", 300, 300, 1)
    /\ FiredCount("Arith_MulDivLit_Pos1") = 1
    /\ InsnsIn(code[1]) = <<move_insn("OPCODE_MOVE_16", 300, 300)>>

\* the method is the single instruction move d, s or move-object d, s
MoveShape ==
    /\ OneBlock(1)
    /\ Len(m_patterns) = 20
    /\ Original(1).opcode \in {"OPCODE_MOVE", "OPCODE_MOVE_OBJECT"}

\* C23: on a single move or move-object, Remove_Redundant_Move fires if and
\* only if the source is the destination; the instruction then is deleted
\* and nothing is inserted; a move between different registers is left as
\* it is.
C23_RemoveRedundantMove ==
    MoveShape =>
        LET same == Original(1).dests[1] = Original(1).srcs[1]
        IN /\ FiredCount("Remove_Redundant_Move") > 0 => same
           /\ pc # "aborted"
           /\ pc = "done" /\ same =>
                  /\ FiredCount("Remove_Redundant_Move") = 1
                  /\ deletes = <<method[1][1].id>>
                  /\ inserts = <<[anchor |-> method[1][1].id, insns |-> << >>]>>
                  /\ code = << << >> >>
           /\ pc = "done" /\ ~same => code = method /\ deletes = << >>

\* move-object v3, v3 has been removed
C23_Witness ==
    /\ pc = "done"
    /\ MoveShape
    /\ Original(1) = move_insn("OPCODE_MOVE_OBJECT", 3, 3)
    /\ FiredCount("Remove_Redundant_Move") = 1
    /\ m_stats_removed = 1
    /\ m_stats_inserted = 0
    /\ code[1] = << >>

(***************************************************************************)
(* The width limit as the register fields of the replacement give it: the  *)
(* narrowest field among the destination and the sources that a replace    *)
(* element names, over the elements that mention the register.             *)
(***************************************************************************)
FieldWidths(el) ==
    LET op == CHOOSE o \in el.opcodes : TRUE
    IN (IF el.dests # << >> THEN {dest_bit_width(op)} ELSE {})
       \cup {src_bit_width(op, i - 1) : i \in DOMAIN el.srcs}

NarrowestField(replace, x) ==
    LET widths == UNION {FieldWidths(replace[k]) :
                            k \in {j \in DOMAIN replace :
                                       /\ replace[j].kind # "copy"
                                       /\ x \in SeqToSet(replace[j].srcs)
                                                    \cup SeqToSet(replace[j].dests)}}
    IN IF widths = {} THEN 16
       ELSE CHOOSE w \in widths \cup {16} : \A o \in widths \cup {16} : w <= o

\* C24: for every rule and every symbolic register, the width limit is the
\* narrowest destination or source field of the opcodes of the replace
\* elements that mention the register, and 16 when none mentions it.
C24_WidthLimitIsNarrowestField ==
    \A i \in DOMAIN m_patterns :
        \A x \in 1..(kRegisterArraySize - 1) :
            m_patterns[i].register_width_limits[x]
                = NarrowestField(m_patterns[i].replace, x)

\* the instructions of a matched run, without their identities
ContentsOf(ids) == [n \in DOMAIN ids |-> InsnsOf(method)[ids[n]]]

RECURSIVE FreshWalk(_, _, _, _, _)
FreshWalk(blocks, b, e, ms, ed) ==
    IF b > Len(blocks) THEN ed
    ELSE IF e > Len(blocks[b])
    THEN FreshWalk(blocks, b + 1, 1, [k \in DOMAIN ms |-> reset], ed)
    ELSE IF blocks[b][e].type # "MFLOW_OPCODE"
    THEN FreshWalk(blocks, b, e + 1, ms, ed)
    ELSE LET r == [i \in DOMAIN ms |->
                      try_match(m_patterns[i], ms[i], blocks[b][e].id,
                                InsnsOf(blocks))]
             winners == {i \in DOMAIN ms : r[i].ret}
         IN IF winners = {}
            THEN FreshWalk(blocks, b, e + 1, [i \in DOMAIN ms |-> r[i].m], ed)
            ELSE LET w == CHOOSE i \in winners : \A o \in winners : i <= o
                 IN FreshWalk(blocks, b, e + 1,
                        [i \in DOMAIN ms |->
                            IF i < w THEN r[i].m ELSE IF i = w THEN reset ELSE ms[i]],
                        [deletes |-> ed.deletes \o r[w].m.matched_instructions,
                         inserts |-> Append(ed.inserts,
                             [anchor |-> blocks[b][e].id,
                              insns |-> get_replacements(m_patterns[w], r[w].m,
                                                         InsnsOf(blocks)).insns])])

FreshEdits(blocks) ==
    FreshWalk(blocks, 1, 1, [k \in DOMAIN m_patterns |-> reset],
              [deletes |-> << >>, inserts |-> << >>])

\* the traversal of the second method of the scope is over
SecondTraversed ==
    /\ scope = << >>
    /\ fed # << >>
    /\ pc = "done" \/ (pc = "block" /\ block > Len(method))

\* C26: when a method is processed after another one by the same optimizer,
\* the deletions and insertions queued for it are those that a fresh
\* optimizer queues for the method alone; only the counters go on from the
\* first method.
C26_NoStateAcrossMethods ==
    /\ scope = << >> => pc # "aborted"
    /\ SecondTraversed =>
           /\ deletes = FreshEdits(method).deletes
           /\ inserts = FreshEdits(method).inserts

\* a rule has fired in the first method and another in the second: the
\* counters show both firings, the queues hold the edits of the second only
C26_Witness ==
    /\ pc = "done"
    /\ scope = << >>
    /\ SumStat(Len(m_matchers)) = 2
    /\ Len(Firings) = 1
    /\ m_patterns[Firings[1].matcher].name = "Coalesce_InitVoid_AppendString"
    /\ Len(deletes) = 4
    /\ deletes = FreshEdits(method).deletes
    /\ inserts = FreshEdits(method).inserts
    /\ Len(inserts) = 1

\* the simple name of a class by its type name: what stands between the
\* leading L, or the last '/' if there is one, and the closing ';'
SimpleNameOf(type) ==
    LET full == TypeChars(type)
        body == SubSeq(full, 2, Len(full) - 1)
        slashes == {k \in DOMAIN body : body[k] = "/"}
        start == IF slashes = {} THEN 1
                 ELSE (CHOOSE k \in slashes : \A o \in slashes : o <= k) + 1
    IN JoinStrings(SubSeq(body, start, Len(body)))

\* C27: a firing of Remove_LangClass_GetSimpleName on [const-class a, T;
\* invoke {a} Class.getSimpleName(); move-result-object b] queues exactly two
\* instructions: one equal to the matched const-class, and const-string b
\* with the simple name of T; in the edited block the const-class is a new
\* instruction object, not the matched one.
C27_GetSimpleNameReplacement ==
    pc \notin {"matched", "aborted"} =>
        \A k \in DOMAIN inserts :
            m_patterns[Firings[k].matcher].name = "Remove_LangClass_GetSimpleName" =>
                LET const_class_insn == InsnsOf(method)[Firings[k].matched[1]]
                    b == InsnsOf(method)[Firings[k].matched[3]].dests[1]
                IN /\ inserts[k].insns
                          = <<const_class_insn,
                              const_string_insn(b, SimpleNameOf(const_class_insn.type))>>
                   /\ pc = "done" => ~Holds(code, Firings[k].matched[1])

\* the number of pattern elements the latest try_match call tested against
\* its instruction: the element at the cursor, and element 0 on a retry
ElementTests ==
    IF last.path \in {"retry_matched", "retry_failed"} THEN 2 ELSE 1

\* every instruction of the deletes queue has left the code and stands in the
\* queue once; every queued replacement stands in the code
EditsAppliedOnce ==
    /\ \A k \in DOMAIN deletes :
           /\ ~Holds(code, deletes[k])
           /\ \A o \in DOMAIN deletes : deletes[o] = deletes[k] => o = k
    /\ Len(Concat(code)) = Len(Concat(method)) - Len(deletes)
                         + Len(Concat([k \in DOMAIN inserts |-> inserts[k].insns]))

\* C28: the pass runs to completion: no instruction is fed twice to the same
\* matcher, a try_match call tests at most two pattern elements, the pass
\* never stops on a failed edit, and once the traversal is over every queued
\* edit has been applied exactly once.
C28_PassTerminates ==
    /\ \A k, o \in DOMAIN fed :
           (fed[k].matcher = fed[o].matcher /\ fed[k].id = fed[o].id) => k = o
    /\ last.called => ElementTests <= 2
    /\ pc # "aborted"
    /\ pc = "done" => EditsAppliedOnce

\* the traversal is over and the edits have not been applied yet
TraversalOver == pc = "block" /\ block > Len(method)

\* the entries of the blocks that did not come with the method
InsertedEntries(blocks) == SelectSeq(Concat(blocks), LAMBDA e : e.id = 0)

\* C31: a step of the traversal leaves the instruction list as it is and
\* only lengthens the queues; the step that ends peephole finds the anchor of
\* every queued insertion in the list and in the deletes queue, and leaves
\* every queued replacement in the list: the insertions are applied before
\* any deletion takes an anchor away.
C31_EditsQueuedThenApplied ==
    [][IF TraversalOver
       THEN /\ \A k \in DOMAIN inserts :
                   /\ Holds(code, inserts[k].anchor)
                   /\ inserts[k].anchor \in SeqToSet(deletes)
            /\ InsnsIn(InsertedEntries(code'))
                   = Concat([k \in DOMAIN inserts |-> inserts[k].insns])
       ELSE /\ code' = code
            /\ code = method
            /\ Len(deletes) <= Len(deletes')
            /\ SubSeq(deletes', 1, Len(deletes)) = deletes
            /\ Len(inserts) <= Len(inserts')
            /\ SubSeq(inserts', 1, Len(inserts)) = inserts]_vars

\* the edits of a method with a firing have been applied: the anchor is gone
\* and the replacement is in the list
C31_Witness ==
    /\ pc = "done"
    /\ inserts # << >>
    /\ ~Holds(code, inserts[1].anchor)
    /\ InsertedEntries(code) # << >>

\* C32: within one method no instruction stands twice in the deletes queue
\* and no two firings share a matched instruction.
C32_MatchedRunsDisjoint ==
    /\ \A k, o \in DOMAIN deletes : deletes[k] = deletes[o] => k = o
    /\ \A k, o \in DOMAIN Firings :
           k # o => SeqToSet(Firings[k].matched) \cap SeqToSet(Firings[o].matched) = {}

\* the matcher i holds as many instructions as its cursor says, and its
\* cursor is short of the end of its match sequence
CursorInRange(i) ==
    /\ Len(m_matchers[i].matched_instructions) = m_matchers[i].match_index
    /\ m_matchers[i].match_index >= 0
    /\ m_matchers[i].match_index < Len(PatternOf(i).match)

\* C33: between two try_match calls every matcher holds as many instructions
\* as its cursor says and its cursor is below the length of its match
\* sequence, so no call starts with the cursor at the end; the cursor is at
\* the end only in the winner, between its true return and its reset.
C33_CursorBelowLength ==
    /\ pc \in {"block", "entry", "done"} => \A i \in DOMAIN m_matchers : CursorInRange(i)
    /\ pc = "matched" =>
           /\ m_matchers[cur].match_index = Len(PatternOf(cur).match)
           /\ Len(m_matchers[cur].matched_instructions) = m_matchers[cur].match_index
           /\ \A i \in DOMAIN m_matchers \ {cur} : CursorInRange(i)
    /\ last.called => last.index_before < Len(PatternOf(last.matcher).match)

\* a completed match was vetoed by the predicate and the traversal has gone
\* on with the matcher back below the end of its sequence
C33_Witness ==
    /\ pc = "entry"
    /\ last.called
    /\ last.veto
    /\ last.index_before + 1 = Len(PatternOf(last.matcher).match)
    /\ CursorInRange(last.matcher)

\* the driver stands at an entry of the block that is not an opcode entry
AtOtherEntry ==
    /\ pc = "entry"
    /\ entry <= Len(method[block])
    /\ CurrentEntry.type # "MFLOW_OPCODE"

\* C34: the step over an entry that is not an opcode entry calls neither
\* try_match nor reset: every matcher, the call history and the queues are as
\* before, and the driver is at the next entry of the same block.
C34_OtherEntriesSkipped ==
    [][AtOtherEntry =>
           /\ m_matchers' = m_matchers
           /\ fed' = fed
           /\ last' = last
           /\ deletes' = deletes /\ inserts' = inserts
           /\ pc' = "entry" /\ block' = block /\ entry' = entry + 1]_vars

\* a rule of several instructions has fired on a run with entries that are
\* not opcode entries between its instructions
C34_Witness ==
    /\ pc = "matched"
    /\ Len(m_matchers[cur].matched_instructions) >= 2
    /\ \A k \in 1..(Len(m_matchers[cur].matched_instructions) - 1) :
           /\ m_matchers[cur].matched_instructions[k + 1]
                  = m_matchers[cur].matched_instructions[k] + 2
           /\ method[block][m_matchers[cur].matched_instructions[k] + 1].type
                  = "MFLOW_TARGET"

\* C35: placeholders need not be bound to distinct registers.  On the block
\* [const-string a, s; const-string b, t; invoke-virtual {a, b}
\* String.equals(Object); move-result c], whether or not a and b are the same
\* register, CompileTime_StringCompare completes on the fourth instruction
\* with A bound to a, B to b and C to c, and the block ends as const/4 c, k
\* with k = 1 if s and t are the same string and 0 otherwise.
C35_SharedRegisterBinds ==
    StringCompareShape =>
        /\ (pc = "matched" /\ entry = 4) =>
               /\ PatternOf(cur).name = "CompileTime_StringCompare"
               /\ m_matchers[cur].matched_regs[Register_A] = Original(1).dests[1]
               /\ m_matchers[cur].matched_regs[Register_B] = Original(2).dests[1]
               /\ m_matchers[cur].matched_regs[Register_C] = Original(4).dests[1]
        /\ block > 1 => FiredCount("CompileTime_StringCompare") = 1
        /\ pc = "done" =>
               InsnsIn(code[1])
                   = <<const_insn("OPCODE_CONST_4", Original(4).dests[1],
                                  IF Original(1).string = Original(2).string
                                  THEN 1 ELSE 0)>>

\* both const-strings went into one register, with different strings, and
\* the block has ended as const/4 c, 0
C35_Witness ==
    /\ StringCompareShape
    /\ pc = "done"
    /\ Original(1).dests[1] = Original(2).dests[1]
    /\ Original(1).string # Original(2).string
    /\ InsnsIn(code[1]) = <<const_insn("OPCODE_CONST_4", Original(4).dests[1], 0)>>

\* C36: when a rule whose replacement names Type_A_get_simple_name has
\* completed its match, the string of the const-string it builds is the
\* simple name of the bound type A: the characters behind the last '/' of the
\* type name, or behind the leading L where there is no '/', up to the ';'.
C36_SimpleNameOfBoundType ==
    (/\ pc = "matched"
     /\ \E k \in DOMAIN PatternOf(cur).replace :
            PatternOf(cur).replace[k].string = "Type_A_get_simple_name") =>
        LET built == get_replacements(PatternOf(cur), m_matchers[cur], InsnsOf(method))
        IN /\ ~built.abort
           /\ \A k \in DOMAIN PatternOf(cur).replace :
                  PatternOf(cur).replace[k].string = "Type_A_get_simple_name" =>
                      built.insns[k].string
                          = SimpleNameOf(m_matchers[cur].matched_types["A"])

\* the decimal numeral of the low 32 bits of a bound literal, read as a
\* signed 32-bit number
Low32Numeral(a) ==
    CASE a = <<0, 0, 0, 0>> -> "0"
      [] a = <<0, 0, 0, 1>> -> "1"
      [] a = <<0, 0, 0, 2>> -> "2"
      [] a = <<0, 0, 0, 42>> -> "42"
      [] a = <<0, 0, 1, 0>> -> "65536"
      [] a = <<65535, 65535, 65535, 65535>> -> "-1"
      [] a = <<65535, 65535, 65535, 65529>> -> "-7"
      [] a = <<0, 1, 0, 0>> -> "0"
      [] a = <<0, 1, 0, 5>> -> "5"
      [] a = <<0, 0, 32768, 1>> -> "-2147483647"
      [] a = <<0, 0, 65535, 65535>> -> "-1"
      [] a = <<65535, 65534, 65535, 65529>> -> "-7"
      [] a = <<32767, 65535, 65535, 65535>> -> "-1"
      [] a = <<32768, 0, 0, 0>> -> "0"

\* the decimal numeral of a bound literal as a signed 64-bit number
Int64Numeral(a) ==
    CASE a = <<0, 0, 0, 0>> -> "0"
      [] a = <<0, 0, 0, 1>> -> "1"
      [] a = <<0, 0, 0, 2>> -> "2"
      [] a = <<0, 0, 0, 42>> -> "42"
      [] a = <<0, 0, 1, 0>> -> "65536"
      [] a = <<65535, 65535, 65535, 65535>> -> "-1"
      [] a = <<65535, 65535, 65535, 65529>> -> "-7"
      [] a = <<0, 1, 0, 0>> -> "4294967296"
      [] a = <<0, 1, 0, 5>> -> "4294967301"
      [] a = <<0, 0, 32768, 1>> -> "2147483649"
      [] a = <<0, 0, 65535, 65535>> -> "4294967295"
      [] a = <<65535, 65534, 65535, 65529>> -> "-4294967303"
      [] a = <<32767, 65535, 65535, 65535>> -> "9223372036854775807"
      [] a = <<32768, 0, 0, 0>> -> "-9223372036854775808"

TruthNumeral(a) == IF a = <<0, 0, 0, 0>> THEN "false" ELSE "true"

\* C37: int_A_to_string and concat_string_A_int_A render the low 32 bits of
\* the bound 64-bit literal as a signed decimal, long_int_A_to_string renders
\* the whole signed 64-bit value, and boolean_A_to_string and
\* concat_string_A_boolean_A give "true" for every literal but 0.
C37_LiteralDirectives ==
    LET a == rewritten.literal_A
        s == rewritten.string_A
    IN /\ rewritten.directive = "int_A_to_string" =>
              rewritten.string = Low32Numeral(a)
       /\ rewritten.directive = "concat_string_A_int_A" =>
              rewritten.string = s \o Low32Numeral(a)
       /\ rewritten.directive = "long_int_A_to_string" =>
              rewritten.string = Int64Numeral(a)
       /\ rewritten.directive = "boolean_A_to_string" =>
              rewritten.string = TruthNumeral(a)
       /\ rewritten.directive = "concat_string_A_boolean_A" =>
              rewritten.string = s \o TruthNumeral(a)

\* int_A_to_string has rendered 2^32 + 5 as "5"
C37_Witness ==
    /\ rewritten.literal_A = <<0, 1, 0, 5>>
    /\ rewritten.directive = "int_A_to_string"
    /\ rewritten.string = "5"

====
